---- MODULE Spec2Model ----
(***************************************************************************)
(* kiloshare-mobile: the handoff/delivery protocol of a booking and the    *)
(* chat sessions that drive it.                                            *)
(*                                                                         *)
(* The stored state is one booking_requests row and the messages of its    *)
(* conversation.  The clients are ChatScreen instances (each with its own  *)
(* React state), the traveler's BookingRequestsScreen, the sender's        *)
(* MyBookingsScreen.  Every await of a handler is a separate step: the     *)
(* store access happens in the step, the code up to the next await runs    *)
(* with it.                                                                *)
(***************************************************************************)
EXTENDS Integers, Sequences, FiniteSets, TLC

(* ---------------------------------------------------------------- bounds *)
\* length of a delivery code (the loop bound of generateDeliveryCode, scaled)
CodeLen == 1
\* number of rows the messages table may hold
MaxMsgs == 3
\* number of ordinary (user) messages among them
MaxUserMsgs == 1
\* number of distinct readings of the clients' clocks
MaxTime == 2
\* number of rows of booking_requests an inbox is computed from
MaxBookings == 2
\* number of loads a chat session has under way at a time
MaxLoads == 2
\* number of channels a client creates in a run
MaxChannels == 2
\* number of refreshes the unread badge has under way at a time
MaxRefreshes == 2
\* number of poll intervals the device's clock runs for
MaxPolls == 2

(* -------------------------------------------------------------- constants *)
MaxMessageLen == 2000

Sender == "S"
Traveler == "T"
Users == {Sender, Traveler}
Sessions == {"c1", "c2"}

Statuses == {"pending", "approved", "rejected", "cancelled", "handed_over", "delivered"}
HandoffSteps == {"none", "sender_confirmed", "handed_over", "delivered"}
HandoffOrder == <<"none", "sender_confirmed", "handed_over", "delivered">>

\* a null column / an empty string (both falsy in the source)
NoCode == << >>
NoText == << >>
\* read_at of a message nobody has read (null), and the timestamps
\* new Date().toISOString() can give
NoRead == 0
Times == 1..MaxTime

(* ---------------------------------------------------------------- strings *)
\* strings are sequences of one-character strings
UpperChar(ch) ==
    CASE ch = "a" -> "A"
      [] ch = "b" -> "B"
      [] ch = "h" -> "H"
      [] ch = "i" -> "I"
      [] OTHER -> ch

LowerChar(ch) ==
    CASE ch = "A" -> "a"
      [] ch = "B" -> "b"
      [] ch = "H" -> "h"
      [] ch = "I" -> "i"
      [] OTHER -> ch

toUpperCase(s) == [i \in DOMAIN s |-> UpperChar(s[i])]
toLowerCase(s) == [i \in DOMAIN s |-> LowerChar(s[i])]

RECURSIVE trimStart(_)
trimStart(s) == IF s # << >> /\ Head(s) = " " THEN trimStart(Tail(s)) ELSE s

RECURSIVE trimEnd(_)
trimEnd(s) ==
    IF s # << >> /\ s[Len(s)] = " " THEN trimEnd(SubSeq(s, 1, Len(s) - 1)) ELSE s

trim(s) == trimEnd(trimStart(s))

(* ------------------------------------------------------------ lib/chat.ts *)
\* the alphabet of generateDeliveryCode, scaled to two of its symbols
chars == {"A", "B"}

RECURSIVE SeqsOfLen(_, _)
SeqsOfLen(S, n) ==
    IF n = 0 THEN {<< >>}
    ELSE {<<x>> \o t : x \in S, t \in SeqsOfLen(S, n - 1)}

\* every value generateDeliveryCode can return
generateDeliveryCode == SeqsOfLen(chars, CodeLen)

\* the prefix and the step name of a system message's content are written
\* as one piece each
systemMessages ==
    [sender_confirmed |-> <<"[HANDOFF] ", "sender_confirmed">>,
     handed_over |-> <<"[HANDOFF] ", "handed_over">>,
     delivered |-> <<"[HANDOFF] ", "delivered">>]

statusForStep == [handed_over |-> "handed_over", delivered |-> "delivered"]

\* the updateData object confirmHandoff builds for a step
updateData(step, deliveryCode) ==
    [k \in {"handoff_step"}
          \cup (IF step \in DOMAIN statusForStep THEN {"status"} ELSE {})
          \cup (IF step = "handed_over" THEN {"delivery_code"} ELSE {}) |->
        CASE k = "handoff_step" -> step
          [] k = "status" -> statusForStep[step]
          [] k = "delivery_code" -> deliveryCode]

\* supabase .update(upd).eq('id', ...): the named columns are overwritten,
\* whatever the row holds (no condition on the current handoff_step)
ApplyUpdate(row, upd) ==
    [k \in DOMAIN row |-> IF k \in DOMAIN upd THEN upd[k] ELSE row[k]]

\* rows of the messages table; content is a system code or a user text
\* read_at is null in a new row and created_at is set by the table, later
\* than that of every row it holds
NewRow(rows, senderId, content, isSystem) ==
    [sender_id |-> senderId, content |-> content, is_system |-> isSystem,
     read_at |-> NoRead, created_at |-> Len(rows) + 1]

\* codeMatches without the upper-casing of the submitted code
codeMatches_CaseSensitive(code, stored) ==
    stored # NoCode /\ trim(code) = trim(toUpperCase(stored))

\* the comparison of validateDeliveryCode
codeMatches(code, stored) ==
    stored # NoCode /\ trim(toUpperCase(code)) = trim(toUpperCase(stored))

\* validatePasses without the check of handoff_step
validatePasses_AnyStep(error, data, code) ==
    /\ ~error
    /\ codeMatches(code, data.delivery_code)

\* the checks of validateDeliveryCode on the row it read
validatePasses(error, data, code) ==
    /\ ~error
    /\ data.handoff_step = "handed_over"
    /\ codeMatches(code, data.delivery_code)

\* sendMessageValid with 'trimmed.length >= 2000' for the upper limit
sendMessageValid_OffByOne(content) ==
    trim(content) # NoText /\ Len(trim(content)) < MaxMessageLen

\* the validation of sendMessage
sendMessageValid(content) ==
    trim(content) # NoText /\ Len(trim(content)) <= MaxMessageLen

\* the filter of fetchConversations / getUnreadCount on status
qualifies(status) == status \notin {"pending", "rejected", "cancelled"}

(* ------------------------------------------------------------------ state *)
VARIABLES
    booking,        \* the booking_requests row: status, handoff_step, delivery_code
    messages,       \* the messages rows of the booking, in insertion order
    call,           \* per client: the lib/chat.ts call it has under way
    chat,           \* per ChatScreen instance: its React state
    requests,       \* BookingRequestsScreen (traveler): the status its list shows
    bookings,       \* MyBookingsScreen (sender): the status its list shows
    ratings,        \* the ratings rows of the booking, in insertion order
    tables,         \* the booking_requests rows an inbox is computed from, each
                    \* with its announcement's owner and its messages
    hook,           \* the useChat instance of a chat session: its props, its
                    \* React state and its channelRef
    wire,           \* what is under way between that instance and the store:
                    \* the channels subscribed, the loads and the INSERT
                    \* handlers awaiting their select
    badge           \* the useUnreadMessages instance of the tab bar: its prop,
                    \* its count, its interval, its refreshes under way, and
                    \* the clock of its device

vars == <<booking, messages, call, chat, requests, bookings, ratings, tables,
          hook, wire, badge>>

\* the rows confirmHandoff / validateDeliveryCode and sendMessage insert
SysMsg(senderId, step) == NewRow(messages, senderId, systemMessages[step], TRUE)

UserMsg(senderId, text) == NewRow(messages, senderId, text, FALSE)

\* maybeSingle() of fetchConversations on no row or on a failed read: null
NoLastMsg == [content |-> NoText, created_at |-> 0]

\* a client with no call under way.  fn is the function called, pc the await
\* it is at ("returned" once it has returned or thrown), ret what it returned;
\* senderId, step, code and text are its arguments and locals, error the
\* error of a store access of the call, rows what fetchMessages returned,
\* ratedId and score the rated user and the score passed to submitRating,
\* todo the bookings fetchConversations has yet to go through and lastMsg
\* the newest message it has read of the booking at hand
\* (todo is also the bookings getUnreadCount has selected and count the
\* number it returns)
NoCall ==
    [fn |-> "none", pc |-> "idle", ret |-> "none", senderId |-> Sender,
     step |-> "none", code |-> NoCode, text |-> NoText, error |-> FALSE,
     rows |-> << >>, ratedId |-> Traveler, score |-> 0, count |-> 0,
     todo |-> << >>, lastMsg |-> NoLastMsg]

\* the React state of a ChatScreen that is not mounted / has just been
\* mounted; loadPc is the await loadBookingContext is at and delivered
\* whether the booking.status it has read is 'delivered' (FALSE outside the load)
ChatInit(mounted, user) ==
    [mounted |-> mounted, user |-> user,
     isSender |-> FALSE, isTraveler |-> FALSE, handoffStep |-> "none",
     showRating |-> FALSE, ratingScore |-> 0, delivered |-> FALSE,
     loadPc |-> IF mounted THEN "ld_booking" ELSE "done"]

\* the id of the booking whose rows `messages` holds, the id of another
\* booking, which has no messages, and the empty id of a screen opened
\* without a booking
BookingId == "b1"
OtherBookingId == "b2"
NoBookingId == ""
BookingIds == {NoBookingId, BookingId, OtherBookingId}

\* userId while the auth context has no user
NoUser == "undefined"

\* the error state of useChat
NoError == "null"
LoadError == "Failed to load messages"

\* a useChat instance that is not mounted; once mounted it has the state of
\* its useState calls: messages [], loading true, error null.  cleanup is the
\* channel the cleanup of the subscription effect will unsubscribe (0: the
\* effect returned none) and created counts the channels created so far
UseChatInit ==
    [mounted |-> FALSE, bookingRequestId |-> NoBookingId, userId |-> NoUser,
     messages |-> << >>, loading |-> TRUE, error |-> NoError,
     channelRef |-> 0, cleanup |-> 0, created |-> 0]

\* no channel subscribed, no load and no handler under way
NoWire == [channels |-> {}, loads |-> << >>, handlers |-> {}]

\* setInterval(refresh, 30000)
PollInterval == 30000

\* no interval is set
NoInterval == -1

\* a useUnreadMessages instance that is not mounted; once mounted its count
\* is 0.  interval is the time at which the interval it has set fires next,
\* now the time on the device's clock (both in ms), and refreshes the calls
\* of refresh that await getUnreadCount
BadgeInit ==
    [mounted |-> FALSE, userId |-> NoUser, count |-> 0, interval |-> NoInterval,
     now |-> 0, refreshes |-> << >>]

\* an approved booking on which no handoff has begun
ApprovedBooking ==
    [status |-> "approved", handoff_step |-> "none", delivery_code |-> NoCode]

Init ==
    /\ booking = ApprovedBooking
    /\ messages = << >>
    /\ call = [c \in Sessions |-> NoCall]
    /\ chat = [c \in Sessions |-> ChatInit(FALSE, Sender)]
    /\ requests = "approved"
    /\ bookings = "approved"
    /\ ratings = << >>
    /\ tables = << >>
    /\ hook = UseChatInit
    /\ wire = NoWire
    /\ badge = BadgeInit

NumUserMsgs == Cardinality({i \in DOMAIN messages : ~messages[i].is_system})

NumSysMsgs(step) ==
    Cardinality({i \in DOMAIN messages :
                    messages[i].is_system /\ messages[i].content = systemMessages[step]})

\* what a user may type into the chat input: a code in lower case followed
\* by a space, an ordinary text, and blanks only
Inputs ==
    {toLowerCase(code) \o <<" ">> : code \in generateDeliveryCode}
      \cup {<<"h", "i">>, <<" ">>}

\* handlers under way; each may insert one row
CallsInFlight == Cardinality({c \in Sessions : call[c].pc # "idle"})
SendsInFlight == Cardinality({c \in Sessions : call[c].pc = "sm_insert"})
RoomForInsert == Len(messages) + CallsInFlight < MaxMsgs
RoomForUserMsg == NumUserMsgs + SendsInFlight < MaxUserMsgs

SetCall(p, frame) == call' = [call EXCEPT ![p] = frame]
SetChat(c, rec) == chat' = [chat EXCEPT ![c] = rec]
Returned(frame, ret) == [frame EXCEPT !.pc = "returned", !.ret = ret]
\* if (error) throw error
Threw(frame) == Returned([frame EXCEPT !.error = TRUE], "threw")

(* --------------------------------------------- lib/chat.ts: confirmHandoff *)
\* the call up to its first await: updateData is built, with a fresh code
\* when the step is handed_over
ConfirmHandoffFrame(senderId, step, deliveryCode) ==
    [NoCall EXCEPT !.fn = "confirmHandoff", !.pc = "cf_update",
                   !.senderId = senderId, !.step = step, !.code = deliveryCode]

\* CfUpdate without 'if (error) throw error': the call goes on to its insert
CfUpdate_IgnoresError(p, ok) ==
    /\ call[p].pc = "cf_update"
    /\ booking' = IF ok THEN ApplyUpdate(booking, updateData(call[p].step, call[p].code))
                       ELSE booking
    /\ SetCall(p, [call[p] EXCEPT !.pc = "cf_insert", !.error = ~ok])
    /\ UNCHANGED <<messages, chat, requests, bookings, ratings, tables, hook, wire, badge>>

\* the update of booking_requests; an error is thrown
CfUpdate(p, ok) ==
    /\ call[p].pc = "cf_update"
    /\ IF ok
       THEN /\ booking' = ApplyUpdate(booking, updateData(call[p].step, call[p].code))
            /\ SetCall(p, IF call[p].step \in DOMAIN systemMessages
                          THEN [call[p] EXCEPT !.pc = "cf_insert"]
                          ELSE Returned(call[p], "void"))
       ELSE /\ booking' = booking
            /\ SetCall(p, Threw(call[p]))
    /\ UNCHANGED <<messages, chat, requests, bookings, ratings, tables, hook, wire, badge>>

\* the insert of the system message, then return deliveryCode
CfInsert(p, ok) ==
    /\ call[p].pc = "cf_insert"
    /\ IF ok
       THEN /\ messages' = Append(messages, SysMsg(call[p].senderId, call[p].step))
            /\ SetCall(p, Returned(call[p], IF call[p].code # NoCode
                                            THEN "code" ELSE "void"))
       ELSE /\ messages' = messages
            /\ SetCall(p, Threw(call[p]))
    /\ UNCHANGED <<booking, chat, requests, bookings, ratings, tables, hook, wire, badge>>

(* --------------------------------------- lib/chat.ts: validateDeliveryCode *)
ValidateDeliveryCodeFrame(code, senderId) ==
    [NoCall EXCEPT !.fn = "validateDeliveryCode", !.pc = "vd_read",
                   !.senderId = senderId, !.text = code]

\* the read of the booking and the checks on what it returned
VdRead(p, ok) ==
    /\ call[p].pc = "vd_read"
    /\ SetCall(p, IF validatePasses(~ok, booking, call[p].text)
                  THEN [call[p] EXCEPT !.pc = "vd_update"]
                  ELSE Returned([call[p] EXCEPT !.error = ~ok], "false"))
    /\ UNCHANGED <<booking, messages, chat, requests, bookings, ratings, tables, hook, wire, badge>>

\* the update to delivered; an error is thrown
VdUpdate(p, ok) ==
    /\ call[p].pc = "vd_update"
    /\ IF ok
       THEN /\ booking' = ApplyUpdate(booking, [handoff_step |-> "delivered",
                                                status |-> "delivered"])
            /\ SetCall(p, [call[p] EXCEPT !.pc = "vd_insert"])
       ELSE /\ booking' = booking
            /\ SetCall(p, Threw(call[p]))
    /\ UNCHANGED <<messages, chat, requests, bookings, ratings, tables, hook, wire, badge>>

\* the insert of '[HANDOFF] delivered', then return true
VdInsert(p, ok) ==
    /\ call[p].pc = "vd_insert"
    /\ IF ok
       THEN /\ messages' = Append(messages, SysMsg(call[p].senderId, "delivered"))
            /\ SetCall(p, Returned(call[p], "true"))
       ELSE /\ messages' = messages
            /\ SetCall(p, Threw(call[p]))
    /\ UNCHANGED <<booking, chat, requests, bookings, ratings, tables, hook, wire, badge>>

(* ------------------------------------------------ lib/chat.ts: sendMessage *)
SendMessageFrame(senderId, content) ==
    [NoCall EXCEPT !.fn = "sendMessage", !.pc = "sm_insert",
                   !.senderId = senderId, !.text = content]

\* the content is trimmed and validated, and one row is inserted
SmInsert(p, ok) ==
    /\ call[p].pc = "sm_insert"
    /\ IF ok /\ sendMessageValid(call[p].text)
       THEN /\ NumUserMsgs < MaxUserMsgs
            /\ messages' = Append(messages, UserMsg(call[p].senderId, trim(call[p].text)))
            /\ SetCall(p, Returned(call[p], "void"))
       ELSE /\ messages' = messages
            /\ SetCall(p, IF sendMessageValid(call[p].text)
                          THEN Threw(call[p])
                          ELSE Returned(call[p], "threw"))
    /\ UNCHANGED <<booking, chat, requests, bookings, ratings, tables, hook, wire, badge>>

(* ------------------------------------------------- lib/chat.ts: markAsRead *)
\* markAsReadFilter without .neq('sender_id', userId)
markAsReadFilter_AnySender(row, userId) == row.read_at = NoRead

\* .neq('sender_id', userId).is('read_at', null)
markAsReadFilter(row, userId) == row.sender_id # userId /\ row.read_at = NoRead

\* markAsRead without .is('read_at', null)
markAsRead_AlsoRead(rows, userId, now) ==
    [i \in DOMAIN rows |-> IF rows[i].sender_id # userId
                           THEN [rows[i] EXCEPT !.read_at = now]
                           ELSE rows[i]]

\* update({ read_at: now }) of the rows the filter selects, as one statement
markAsRead(rows, userId, now) ==
    [i \in DOMAIN rows |-> IF markAsReadFilter(rows[i], userId)
                           THEN [rows[i] EXCEPT !.read_at = now]
                           ELSE rows[i]]

MarkAsReadFrame(userId) ==
    [NoCall EXCEPT !.fn = "markAsRead", !.pc = "mr_update", !.senderId = userId]

\* the update; now is what the caller's clock reads; an error is thrown
MrUpdate(p, ok) ==
    /\ call[p].pc = "mr_update"
    /\ IF ok
       THEN /\ \E now \in Times : messages' = markAsRead(messages, call[p].senderId, now)
            /\ SetCall(p, Returned(call[p], "void"))
       ELSE /\ messages' = messages
            /\ SetCall(p, Threw(call[p]))
    /\ UNCHANGED <<booking, chat, requests, bookings, ratings, tables, hook, wire, badge>>

(* ---------------------------------------------- lib/chat.ts: fetchMessages *)
\* .order('created_at', { ascending }) of the selected rows of a table
RECURSIVE orderByCreatedAt(_, _, _)
orderByCreatedAt(rows, selected, ascending) ==
    IF selected = {} THEN << >>
    ELSE LET first == CHOOSE i \in selected : \A j \in selected :
                         IF ascending THEN rows[i].created_at <= rows[j].created_at
                                      ELSE rows[i].created_at >= rows[j].created_at
         IN  <<rows[first]>> \o orderByCreatedAt(rows, selected \ {first}, ascending)

\* fetchMessages with { ascending: false }
fetchMessages_Descending(rows) ==
    orderByCreatedAt(rows, DOMAIN rows, FALSE)

\* the select of the booking's rows in ascending created_at order
fetchMessages(rows) ==
    orderByCreatedAt(rows, DOMAIN rows, TRUE)

FetchMessagesFrame ==
    [NoCall EXCEPT !.fn = "fetchMessages", !.pc = "fm_select"]

\* the select; an error is thrown
FmSelect(p, ok) ==
    /\ call[p].pc = "fm_select"
    /\ SetCall(p, IF ok
                  THEN Returned([call[p] EXCEPT !.rows = fetchMessages(messages)], "rows")
                  ELSE Threw(call[p]))
    /\ UNCHANGED <<booking, messages, chat, requests, bookings, ratings, tables, hook, wire, badge>>

(* ----------------------------------------------- lib/chat.ts: submitRating *)
\* the ratings table admits one row per (booking_request_id, rater_id): an
\* insert of a second one is rejected
ratingsConflict(rows, row) ==
    \E i \in DOMAIN rows : rows[i].rater_id = row.rater_id

\* the row submitRating inserts (the comment is left out)
RatingRow(raterId, ratedId, score) ==
    [rater_id |-> raterId, rated_id |-> ratedId, score |-> score]

\* the call up to its await
SubmitRatingFrame(raterId, ratedId, score) ==
    [NoCall EXCEPT !.fn = "submitRating", !.pc = "sr_insert",
                   !.senderId = raterId, !.ratedId = ratedId, !.score = score]

\* SrInsert returning normally when the insert was rejected
SrInsert_IgnoresError(p, ok) ==
    /\ call[p].pc = "sr_insert"
    /\ LET row == RatingRow(call[p].senderId, call[p].ratedId, call[p].score) IN
       IF ok /\ ~ratingsConflict(ratings, row)
       THEN /\ ratings' = Append(ratings, row)
            /\ SetCall(p, Returned(call[p], "void"))
       ELSE /\ ratings' = ratings
            /\ SetCall(p, Returned([call[p] EXCEPT !.error = TRUE], "void"))
    /\ UNCHANGED <<booking, messages, chat, requests, bookings, tables, hook, wire, badge>>

\* insert into ratings; if (error) throw error.  The score is inserted as
\* it was passed
SrInsert(p, ok) ==
    /\ call[p].pc = "sr_insert"
    /\ LET row == RatingRow(call[p].senderId, call[p].ratedId, call[p].score) IN
       IF ok /\ ~ratingsConflict(ratings, row)
       THEN /\ ratings' = Append(ratings, row)
            /\ SetCall(p, Returned(call[p], "void"))
       ELSE /\ ratings' = ratings
            /\ SetCall(p, Threw(call[p]))
    /\ UNCHANGED <<booking, messages, chat, requests, bookings, tables, hook, wire, badge>>

(* ------------------------------------------ lib/chat.ts: fetchConversations *)
\* .not('status', 'in', ...): the ids of the selected rows, in table order
selectBookings(rows) ==
    SelectSeq([b \in DOMAIN rows |-> b], LAMBDA b : qualifies(rows[b].status))

\* order('created_at', { ascending: false }).limit(1).maybeSingle()
lastMessage(rows) ==
    IF rows = << >> THEN NoLastMsg
    ELSE LET i == CHOOSE i \in DOMAIN rows :
                     \A j \in DOMAIN rows : rows[j].created_at <= rows[i].created_at
         IN  [content |-> rows[i].content, created_at |-> rows[i].created_at]

\* select('*', { count: 'exact', head: true }).neq('sender_id', userId).is('read_at', null)
unreadCount(rows, userId) ==
    Cardinality({i \in DOMAIN rows :
                    rows[i].sender_id # userId /\ rows[i].read_at = NoRead})

\* the comparator of conversations.sort: newest last message first, the
\* conversations without a message last
compareConversations(a, b) ==
    IF a.last_message_at = 0 /\ b.last_message_at = 0 THEN 0
    ELSE IF a.last_message_at = 0 THEN 1
    ELSE IF b.last_message_at = 0 THEN -1
    ELSE b.last_message_at - a.last_message_at

\* Array.prototype.sort, which is stable
RECURSIVE insertConversation(_, _)
insertConversation(sorted, x) ==
    IF sorted = << >> THEN <<x>>
    ELSE IF compareConversations(Head(sorted), x) <= 0
         THEN <<Head(sorted)>> \o insertConversation(Tail(sorted), x)
         ELSE <<x>> \o sorted

RECURSIVE sortConversations(_)
sortConversations(list) ==
    IF list = << >> THEN << >>
    ELSE insertConversation(sortConversations(SubSeq(list, 1, Len(list) - 1)),
                            list[Len(list)])

\* the call up to its first await
FetchConversationsFrame(userId) ==
    [NoCall EXCEPT !.fn = "fetchConversations", !.pc = "fc_bookings",
                   !.senderId = userId]

\* the head of the for loop: the next booking's announcement is read, or,
\* after the last booking, the conversations are sorted and returned
FcLoop(frame) ==
    IF frame.todo = << >>
    THEN Returned([frame EXCEPT !.rows = sortConversations(frame.rows)], "rows")
    ELSE [frame EXCEPT !.pc = "fc_ann"]

\* select from booking_requests; if (bookingsError) throw bookingsError
FcBookings(p, ok) ==
    /\ call[p].pc = "fc_bookings"
    /\ SetCall(p, IF ok
                  THEN FcLoop([call[p] EXCEPT !.todo = selectBookings(tables)])
                  ELSE Threw(call[p]))
    /\ UNCHANGED <<booking, messages, chat, requests, bookings, ratings, tables, hook, wire, badge>>

\* select from announcements; if (!ann) continue; a booking the user is
\* no party to is skipped as well
FcAnn(p, ok) ==
    /\ call[p].pc = "fc_ann"
    /\ LET row == tables[Head(call[p].todo)]
           userId == call[p].senderId IN
       SetCall(p, IF ~ok \/ (row.user_id # userId /\ row.owner # userId)
                  THEN FcLoop([call[p] EXCEPT !.todo = Tail(call[p].todo)])
                  ELSE [call[p] EXCEPT !.pc = "fc_last"])
    /\ UNCHANGED <<booking, messages, chat, requests, bookings, ratings, tables, hook, wire, badge>>

\* the newest message of the booking; a failed read gives null
FcLast(p, ok) ==
    /\ call[p].pc = "fc_last"
    /\ LET row == tables[Head(call[p].todo)] IN
       SetCall(p, [call[p] EXCEPT
                     !.lastMsg = IF ok THEN lastMessage(row.msgs) ELSE NoLastMsg,
                     !.pc = "fc_count"])
    /\ UNCHANGED <<booking, messages, chat, requests, bookings, ratings, tables, hook, wire, badge>>

\* the count of unread messages (count || 0), and conversations.push
FcCount(p, ok) ==
    /\ call[p].pc = "fc_count"
    /\ LET b == Head(call[p].todo)
           row == tables[b]
           userId == call[p].senderId
           conversation ==
              [booking_request_id |-> b,
               other_user_id |-> IF row.user_id = userId THEN row.owner ELSE row.user_id,
               last_message |-> call[p].lastMsg.content,
               last_message_at |-> call[p].lastMsg.created_at,
               unread_count |-> IF ok THEN unreadCount(row.msgs, userId) ELSE 0] IN
       SetCall(p, FcLoop([call[p] EXCEPT !.rows = Append(call[p].rows, conversation),
                                         !.lastMsg = NoLastMsg,
                                         !.todo = Tail(call[p].todo)]))
    /\ UNCHANGED <<booking, messages, chat, requests, bookings, ratings, tables, hook, wire, badge>>

(* ------------------------------------------------- chat.ts getUnreadCount *)
\* the call up to its first await
GetUnreadCountFrame(userId) ==
    [NoCall EXCEPT !.fn = "getUnreadCount", !.pc = "gu_bookings",
                   !.senderId = userId]

\* select from booking_requests; if (bookingsError || !bookings) return 0
GuBookings(p, ok) ==
    /\ call[p].pc = "gu_bookings"
    /\ SetCall(p, IF ok
                  THEN [call[p] EXCEPT !.todo = selectBookings(tables),
                                       !.pc = "gu_anns"]
                  ELSE Returned([call[p] EXCEPT !.error = TRUE, !.count = 0],
                                "count"))
    /\ UNCHANGED <<booking, messages, chat, requests, bookings, ratings, tables, hook, wire, badge>>

\* myBookingIds, from the owners the read of announcements gave: a failed
\* read gives no announcements and annOwnerMap stays empty
myBookingIds(bookingIds, userId, ok) ==
    SelectSeq(bookingIds,
              LAMBDA b : \/ tables[b].user_id = userId
                         \/ ok /\ tables[b].owner = userId)

\* a variant that keeps only the bookings the user has sent
GuAnns_SenderOnly(p, ok) ==
    /\ call[p].pc = "gu_anns"
    /\ LET mine == myBookingIds(call[p].todo, call[p].senderId, FALSE)
           frame == [call[p] EXCEPT !.error = ~ok, !.todo = mine] IN
       SetCall(p, IF mine = << >>
                  THEN Returned([frame EXCEPT !.count = 0], "count")
                  ELSE [frame EXCEPT !.pc = "gu_count"])
    /\ UNCHANGED <<booking, messages, chat, requests, bookings, ratings, tables, hook, wire, badge>>

\* select from announcements, the filter of the bookings;
\* if (myBookingIds.length === 0) return 0
GuAnns(p, ok) ==
    /\ call[p].pc = "gu_anns"
    /\ LET mine == myBookingIds(call[p].todo, call[p].senderId, ok)
           frame == [call[p] EXCEPT !.error = ~ok, !.todo = mine] IN
       SetCall(p, IF mine = << >>
                  THEN Returned([frame EXCEPT !.count = 0], "count")
                  ELSE [frame EXCEPT !.pc = "gu_count"])
    /\ UNCHANGED <<booking, messages, chat, requests, bookings, ratings, tables, hook, wire, badge>>

\* the rows the count query of getUnreadCount selects:
\* in('booking_request_id', myBookingIds).neq('sender_id', userId).is('read_at', null)
RECURSIVE countUnread(_, _)
countUnread(bookingIds, userId) ==
    IF bookingIds = << >> THEN 0
    ELSE unreadCount(tables[Head(bookingIds)].msgs, userId)
            + countUnread(Tail(bookingIds), userId)

\* select from messages with count: 'exact'; if (error) return 0;
\* return count || 0
GuCount(p, ok) ==
    /\ call[p].pc = "gu_count"
    /\ SetCall(p, IF ok
                  THEN Returned([call[p] EXCEPT
                          !.count = countUnread(call[p].todo, call[p].senderId)],
                          "count")
                  ELSE Returned([call[p] EXCEPT !.error = TRUE, !.count = 0],
                                "count"))
    /\ UNCHANGED <<booking, messages, chat, requests, bookings, ratings, tables, hook, wire, badge>>

(* ------------------------------------------------------- ChatScreen.tsx *)
\* ConversationsScreen: loadConversations lists the booking when its status
\* qualifies, and a press on it mounts a fresh ChatScreen
OpenChat(c, u) ==
    /\ ~chat[c].mounted
    /\ call[c].pc = "idle"
    /\ qualifies(booking.status)
    /\ SetChat(c, ChatInit(TRUE, u))
    /\ UNCHANGED <<booking, messages, call, requests, bookings, ratings, tables, hook, wire, badge>>

\* leaving the screen; the load effect's remaining steps only set state of
\* the unmounted component, so they are dropped with it
CloseChat(c) ==
    /\ chat[c].mounted
    /\ call[c].pc = "idle"
    /\ SetChat(c, ChatInit(FALSE, Sender))
    /\ UNCHANGED <<booking, messages, call, requests, bookings, ratings, tables, hook, wire, badge>>

\* loadBookingContext, first part: the booking and its announcement are read
\* and isSender / isTraveler are set; a failed read ends the load
LoadBooking(c) ==
    /\ chat[c].mounted
    /\ chat[c].loadPc = "ld_booking"
    /\ \E ok \in BOOLEAN :
          IF ok
          THEN SetChat(c, [chat[c] EXCEPT !.isSender = (chat[c].user = Sender),
                                          !.isTraveler = (chat[c].user = Traveler),
                                          !.delivered = (booking.status = "delivered"),
                                          !.loadPc = "ld_step"])
          ELSE SetChat(c, [chat[c] EXCEPT !.loadPc = "done"])
    /\ UNCHANGED <<booking, messages, call, requests, bookings, ratings, tables, hook, wire, badge>>

\* fetchHandoffStep: the stored step, or 'none' when the read fails
fetchHandoffStep(ok) == IF ok THEN booking.handoff_step ELSE "none"

\* fetchRatingForBooking: whether the rater has a rating of the booking;
\* null (none) when the read fails
fetchRatingForBooking(raterId, ok) ==
    ok /\ \E i \in DOMAIN ratings : ratings[i].rater_id = raterId

\* loadBookingContext, second part: const step = await fetchHandoffStep();
\* setHandoffStep(step); when booking.status or step is 'delivered' the
\* rating is looked up and, if there is none, setShowRating(true)
LoadStep(c) ==
    /\ chat[c].mounted
    /\ chat[c].loadPc = "ld_step"
    /\ \E ok \in BOOLEAN, okRating \in BOOLEAN :
          LET step == fetchHandoffStep(ok) IN
          SetChat(c, [chat[c] EXCEPT
                         !.handoffStep = step,
                         !.delivered = FALSE,
                         !.showRating =
                            IF (chat[c].delivered \/ step = "delivered")
                               /\ ~fetchRatingForBooking(chat[c].user, okRating)
                            THEN TRUE ELSE chat[c].showRating,
                         !.loadPc = "done"])
    /\ UNCHANGED <<booking, messages, call, requests, bookings, ratings, tables, hook, wire, badge>>

\* the transition handleHandoffAction requests from the state the screen shows
handoffActionStep(isSender, isTraveler, handoffStep) ==
    IF isSender /\ handoffStep = "none" THEN "sender_confirmed"
    ELSE IF isTraveler /\ handoffStep = "sender_confirmed" THEN "handed_over"
    ELSE "none"

\* handleHandoffAction up to the await of confirmHandoff: the step is chosen
\* from the screen's own state
HandleHandoffAction(c) ==
    /\ chat[c].mounted
    /\ call[c].pc = "idle"
    /\ RoomForInsert
    /\ LET step == handoffActionStep(chat[c].isSender, chat[c].isTraveler,
                                     chat[c].handoffStep) IN
       /\ step # "none"
       /\ \E code \in (IF step = "handed_over" THEN generateDeliveryCode ELSE {NoCode}) :
             SetCall(c, ConfirmHandoffFrame(chat[c].user, step, code))
    /\ UNCHANGED <<booking, messages, chat, requests, bookings, ratings, tables, hook, wire, badge>>

\* handleHandoffAction after the await: setHandoffStep(step) unless
\* confirmHandoff threw (an alert is shown and the state stays as it was)
HandoffActionReturn(c) ==
    /\ call[c].pc = "returned"
    /\ call[c].fn = "confirmHandoff"
    /\ chat[c].mounted
    /\ SetChat(c, IF call[c].ret = "threw" THEN chat[c]
                  ELSE [chat[c] EXCEPT !.handoffStep = call[c].step])
    /\ SetCall(c, NoCall)
    /\ UNCHANGED <<booking, messages, requests, bookings, ratings, tables, hook, wire, badge>>

\* handleSend up to its first await: the input is trimmed; while the screen
\* shows handed_over to the sender the text is first tried as a delivery code
HandleSend(c) ==
    /\ chat[c].mounted
    /\ call[c].pc = "idle"
    /\ RoomForInsert
    /\ \E input \in Inputs :
          LET text == trim(input) IN
          /\ text # NoText
          /\ IF chat[c].handoffStep = "handed_over" /\ chat[c].isSender
             THEN SetCall(c, ValidateDeliveryCodeFrame(text, chat[c].user))
             ELSE /\ RoomForUserMsg
                  /\ SetCall(c, SendMessageFrame(chat[c].user, text))
    /\ UNCHANGED <<booking, messages, chat, requests, bookings, ratings, tables, hook, wire, badge>>

\* handleSend after validateDeliveryCode: on true setHandoffStep('delivered'),
\* setShowRating(true) and return; on false the text is sent; a throw is caught with an alert
ValidateReturn(c) ==
    /\ call[c].pc = "returned"
    /\ call[c].fn = "validateDeliveryCode"
    /\ chat[c].mounted
    /\ SetChat(c, IF call[c].ret = "true"
                  THEN [chat[c] EXCEPT !.handoffStep = "delivered",
                                       !.showRating = TRUE]
                  ELSE chat[c])
    /\ SetCall(c, IF call[c].ret = "false"
                  THEN SendMessageFrame(chat[c].user, call[c].text)
                  ELSE NoCall)
    /\ UNCHANGED <<booking, messages, requests, bookings, ratings, tables, hook, wire, badge>>

\* handleSend after send(text): done, with an alert when it threw
SendReturn(c) ==
    /\ call[c].pc = "returned"
    /\ call[c].fn = "sendMessage"
    /\ chat[c].mounted
    /\ SetCall(c, NoCall)
    /\ UNCHANGED <<booking, messages, chat, requests, bookings, ratings, tables, hook, wire, badge>>

\* the stars of the rating widget
Stars == 1..5

\* otherUserId, set by loadBookingContext together with isSender / isTraveler
\* (null until then)
hasOtherUserId(rec) == rec.isSender \/ rec.isTraveler
otherUserId(rec) == IF rec.isSender THEN Traveler ELSE Sender

\* a press on a star of the rating widget, shown while showRating
SetRatingScore(c, star) ==
    /\ chat[c].mounted
    /\ chat[c].showRating
    /\ chat[c].ratingScore # star
    /\ SetChat(c, [chat[c] EXCEPT !.ratingScore = star])
    /\ UNCHANGED <<booking, messages, call, requests, bookings, ratings, tables, hook, wire, badge>>

\* handleSubmitRating up to the await of submitRating
HandleSubmitRating(c) ==
    /\ chat[c].mounted
    /\ chat[c].showRating
    /\ call[c].pc = "idle"
    /\ hasOtherUserId(chat[c])
    /\ chat[c].ratingScore # 0
    /\ SetCall(c, SubmitRatingFrame(chat[c].user, otherUserId(chat[c]),
                                    chat[c].ratingScore))
    /\ UNCHANGED <<booking, messages, chat, requests, bookings, ratings, tables, hook, wire, badge>>

\* handleSubmitRating after the await: setShowRating(false), or an alert
\* when submitRating threw
SubmitRatingReturn(c) ==
    /\ call[c].pc = "returned"
    /\ call[c].fn = "submitRating"
    /\ chat[c].mounted
    /\ SetChat(c, IF call[c].ret = "threw" THEN chat[c]
                  ELSE [chat[c] EXCEPT !.showRating = FALSE])
    /\ SetCall(c, NoCall)
    /\ UNCHANGED <<booking, messages, requests, bookings, ratings, tables, hook, wire, badge>>

\* parseSystemMessage: the label of the system message with this very
\* content (named here by its step), or null
parseSystemMessage(content) ==
    IF content = systemMessages["sender_confirmed"] THEN "senderConfirmed"
    ELSE IF content = systemMessages["handed_over"] THEN "handedOver"
    ELSE IF content = systemMessages["delivered"] THEN "delivered"
    ELSE "null"

\* item.content.startsWith('[HANDOFF]')
startsWithHandoff(content) ==
    content # NoText /\ Head(content) = Head(systemMessages["delivered"])

\* systemText of renderMessage: the label the item is rendered with as a
\* system message, or null when it is rendered as a bubble of its sender
systemText(item) ==
    IF item.is_system \/ startsWithHandoff(item.content)
    THEN parseSystemMessage(item.content)
    ELSE "null"

(* ------------------------------------------- BookingRequestsScreen.tsx *)
\* fetchRequests: the traveler's list is replaced by the stored rows
FetchRequests ==
    /\ requests' = booking.status
    /\ requests' # requests
    /\ UNCHANGED <<booking, messages, call, chat, bookings, ratings, tables, hook, wire, badge>>

\* handleUpdateStatus: offered while the list shows the request as pending;
\* the status column is overwritten and the list patched
HandleUpdateStatus(newStatus) ==
    /\ requests = "pending"
    /\ booking' = ApplyUpdate(booking, [status |-> newStatus])
    /\ requests' = newStatus
    /\ UNCHANGED <<messages, call, chat, bookings, ratings, tables, hook, wire, badge>>

(* ------------------------------------------------ MyBookingsScreen.tsx *)
\* fetchBookings: the sender's list is replaced by the stored rows
FetchBookings ==
    /\ bookings' = booking.status
    /\ bookings' # bookings
    /\ UNCHANGED <<booking, messages, call, chat, requests, ratings, tables, hook, wire, badge>>

\* handleCancel: offered while the list shows the booking as pending
HandleCancel ==
    /\ bookings = "pending"
    /\ booking' = ApplyUpdate(booking, [status |-> "cancelled"])
    /\ bookings' = "cancelled"
    /\ UNCHANGED <<messages, call, chat, requests, ratings, tables, hook, wire, badge>>

(* ------------------------------------------------------ hooks/useChat.ts *)
\* if (!bookingRequestId || !userId) return
hasIds(bookingRequestId, userId) ==
    bookingRequestId # NoBookingId /\ userId # NoUser

\* s without its i-th element
RemoveAt(s, i) == SubSeq(s, 1, i - 1) \o SubSeq(s, i + 1, Len(s))

\* loadMessages up to its await: nothing without the two ids, else
\* setError(null) and the call of fetchMessages
loadMessagesState(h) ==
    IF hasIds(h.bookingRequestId, h.userId) THEN [h EXCEPT !.error = NoError] ELSE h

loadMessagesWire(h, w) ==
    IF hasIds(h.bookingRequestId, h.userId)
    THEN [w EXCEPT !.loads = Append(@, [topic |-> h.bookingRequestId, pc |-> "select",
                                        ok |-> TRUE, data |-> << >>])]
    ELSE w

\* the subscription effect: nothing without the two ids, else a channel on
\* the booking's messages is created and subscribed; it receives the inserts
\* made from now on
subscribeState(h) ==
    IF hasIds(h.bookingRequestId, h.userId)
    THEN [h EXCEPT !.created = @ + 1, !.channelRef = h.created + 1,
                   !.cleanup = h.created + 1]
    ELSE [h EXCEPT !.cleanup = 0]

subscribeWire(h, w) ==
    IF hasIds(h.bookingRequestId, h.userId)
    THEN [w EXCEPT !.channels = @ \cup {[id |-> h.created + 1,
                                         topic |-> h.bookingRequestId,
                                         cursor |-> Len(messages)]}]
    ELSE w

\* a cleanup that leaves the channel subscribed
unsubscribe_Never(h, w) == w

\* the cleanup of the subscription effect: channel.unsubscribe()
unsubscribe(h, w) ==
    [w EXCEPT !.channels = {ch \in @ : ch.id # h.cleanup}]

\* the loads and channels the effects of a render may start
RoomForEffects(bookingRequestId, userId) ==
    hasIds(bookingRequestId, userId)
    => Len(wire.loads) < MaxLoads /\ hook.created < MaxChannels

\* the screen mounts useChat(bookingRequestId, userId): both effects run
MountChat(bookingRequestId, userId) ==
    /\ ~hook.mounted
    /\ RoomForEffects(bookingRequestId, userId)
    /\ LET h == [UseChatInit EXCEPT !.mounted = TRUE,
                                    !.bookingRequestId = bookingRequestId,
                                    !.userId = userId,
                                    !.created = hook.created] IN
       /\ hook' = subscribeState(loadMessagesState(h))
       /\ wire' = subscribeWire(h, loadMessagesWire(h, wire))
    /\ UNCHANGED <<booking, messages, call, chat, requests, bookings, ratings, tables, badge>>

\* a render with another bookingRequestId or userId: the cleanup of the
\* subscription effect runs, then both effects run again
RerenderChat(bookingRequestId, userId) ==
    /\ hook.mounted
    /\ <<bookingRequestId, userId>> # <<hook.bookingRequestId, hook.userId>>
    /\ RoomForEffects(bookingRequestId, userId)
    /\ LET h == [hook EXCEPT !.bookingRequestId = bookingRequestId,
                             !.userId = userId] IN
       /\ hook' = subscribeState(loadMessagesState(h))
       /\ wire' = subscribeWire(h, loadMessagesWire(h, unsubscribe(hook, wire)))
    /\ UNCHANGED <<booking, messages, call, chat, requests, bookings, ratings, tables, badge>>

\* the screen unmounts: the cleanup runs; what the loads and handlers under
\* way set on the unmounted instance has no effect, so they are dropped
UnmountChat ==
    /\ hook.mounted
    /\ hook' = [UseChatInit EXCEPT !.created = hook.created]
    /\ wire' = [unsubscribe(hook, wire) EXCEPT !.loads = << >>, !.handlers = {}]
    /\ UNCHANGED <<booking, messages, call, chat, requests, bookings, ratings, tables, badge>>

\* reload()
ReloadChat ==
    /\ hook.mounted
    /\ Len(wire.loads) < MaxLoads
    /\ hook' = loadMessagesState(hook)
    /\ wire' = loadMessagesWire(hook, wire)
    /\ UNCHANGED <<booking, messages, call, chat, requests, bookings, ratings, tables, badge>>

\* the select of fetchMessages runs on the store, or fails
LoadSelect(i, ok) ==
    /\ i \in DOMAIN wire.loads
    /\ wire.loads[i].pc = "select"
    /\ wire' = [wire EXCEPT !.loads[i] =
                  [@ EXCEPT !.pc = "response", !.ok = ok,
                            !.data = IF ok /\ wire.loads[i].topic = BookingId
                                     THEN fetchMessages(messages) ELSE << >>]]
    /\ UNCHANGED <<booking, messages, call, chat, requests, bookings, ratings, tables, hook, badge>>

\* a variant whose finally block is missing
LoadDone_NoFinally(i) ==
    /\ i \in DOMAIN wire.loads
    /\ wire.loads[i].pc = "response"
    /\ hook' = IF wire.loads[i].ok
               THEN [hook EXCEPT !.messages = wire.loads[i].data]
               ELSE [hook EXCEPT !.error = LoadError]
    /\ wire' = [wire EXCEPT !.loads = RemoveAt(@, i)]
    /\ UNCHANGED <<booking, messages, call, chat, requests, bookings, ratings, tables, badge>>

\* the await of loadMessages resumes: setMessages(data), or the catch block's
\* setError; finally setLoading(false)
LoadDone(i) ==
    /\ i \in DOMAIN wire.loads
    /\ wire.loads[i].pc = "response"
    /\ hook' = IF wire.loads[i].ok
               THEN [hook EXCEPT !.messages = wire.loads[i].data, !.loading = FALSE]
               ELSE [hook EXCEPT !.error = LoadError, !.loading = FALSE]
    /\ wire' = [wire EXCEPT !.loads = RemoveAt(@, i)]
    /\ UNCHANGED <<booking, messages, call, chat, requests, bookings, ratings, tables, badge>>

\* a sendMessage of either party (send() of the hook, or the counterpart's)
\* whose insert succeeds
PostMessage(senderId) ==
    /\ Len(messages) < MaxMsgs
    /\ messages' = Append(messages, UserMsg(senderId, <<"h", "i">>))
    /\ UNCHANGED <<booking, call, chat, requests, bookings, ratings, tables, hook, wire, badge>>

\* the channel receives the INSERT event of the next row of its booking and
\* the handler starts its select of that row
DeliverInsert(id) ==
    /\ \E ch \in wire.channels :
          /\ ch.id = id
          /\ ch.topic = BookingId
          /\ ch.cursor < Len(messages)
          /\ wire' = [wire EXCEPT
                        !.channels = (@ \ {ch}) \cup {[ch EXCEPT !.cursor = @ + 1]},
                        !.handlers = @ \cup {ch.cursor + 1}]
    /\ UNCHANGED <<booking, messages, call, chat, requests, bookings, ratings, tables, hook, badge>>

\* setMessages of the INSERT handler
appendMessage(prev, data) ==
    IF \E i \in DOMAIN prev : prev[i].created_at = data.created_at
    THEN prev
    ELSE Append(prev, data)

\* the select of the INSERT handler returns the row, or null when it fails
InsertHandled(id, ok) ==
    /\ id \in wire.handlers
    /\ wire' = [wire EXCEPT !.handlers = @ \ {id}]
    /\ hook' = IF ok
               THEN [hook EXCEPT !.messages = appendMessage(@, messages[id])]
               ELSE hook
    /\ UNCHANGED <<booking, messages, call, chat, requests, bookings, ratings, tables, badge>>

(* ------------------------------------------- hooks/useUnreadMessages.ts *)
\* what getUnreadCount(userId) returns when its reads succeed
unreadTotal(userId) ==
    countUnread(myBookingIds(selectBookings(tables), userId, TRUE), userId)

\* refresh up to its await: setCount(0) without a user, else the call of
\* getUnreadCount(userId)
refresh(b) ==
    IF b.userId = NoUser
    THEN [b EXCEPT !.count = 0]
    ELSE [b EXCEPT !.refreshes = Append(@, [userId |-> b.userId, pc |-> "await",
                                            rejected |-> FALSE, total |-> 0])]

\* the effect: refresh(); setInterval(refresh, 30000)
pollEffect(b) == [refresh(b) EXCEPT !.interval = b.now + PollInterval]

\* a cleanup that leaves the interval set
pollCleanup_KeepsInterval(b) == b

\* the cleanup of the effect: clearInterval(interval)
pollCleanup(b) == [b EXCEPT !.interval = NoInterval]

\* the refreshes a hook may have under way
RoomForRefresh(userId) ==
    userId # NoUser => Len(badge.refreshes) < MaxRefreshes

\* the tab bar mounts useUnreadMessages(userId)
MountBadge(userId) ==
    /\ ~badge.mounted
    /\ badge.interval = NoInterval
    /\ RoomForRefresh(userId)
    /\ badge' = pollEffect([BadgeInit EXCEPT !.mounted = TRUE, !.userId = userId,
                                             !.now = badge.now])
    /\ UNCHANGED <<booking, messages, call, chat, requests, bookings, ratings, tables, hook, wire>>

\* a render with another userId: refresh is another callback, so the cleanup
\* of the effect runs and the effect runs again
RerenderBadge(userId) ==
    /\ badge.mounted
    /\ userId # badge.userId
    /\ RoomForRefresh(userId)
    /\ badge' = pollEffect(pollCleanup([badge EXCEPT !.userId = userId]))
    /\ UNCHANGED <<booking, messages, call, chat, requests, bookings, ratings, tables, hook, wire>>

\* the tab bar unmounts: the cleanup runs; what the refreshes under way set
\* on the unmounted instance has no effect, so they are dropped
UnmountBadge ==
    /\ badge.mounted
    /\ badge' = [pollCleanup(badge) EXCEPT !.mounted = FALSE, !.refreshes = << >>]
    /\ UNCHANGED <<booking, messages, call, chat, requests, bookings, ratings, tables, hook, wire>>

\* the interval fires: refresh()
IntervalFires ==
    /\ badge.interval # NoInterval
    /\ badge.now = badge.interval
    /\ RoomForRefresh(badge.userId)
    /\ badge' = [refresh(badge) EXCEPT !.interval = @ + PollInterval]
    /\ UNCHANGED <<booking, messages, call, chat, requests, bookings, ratings, tables, hook, wire>>

\* the refresh the hook returns is called by a screen
ManualRefresh ==
    /\ badge.mounted
    /\ RoomForRefresh(badge.userId)
    /\ badge' = refresh(badge)
    /\ UNCHANGED <<booking, messages, call, chat, requests, bookings, ratings, tables, hook, wire>>

\* time passes on the device, up to the time at which its interval fires
Tick(d) ==
    /\ badge.now + d <= MaxPolls * PollInterval
    /\ badge.interval # NoInterval => badge.now + d <= badge.interval
    /\ badge' = [badge EXCEPT !.now = @ + d]
    /\ UNCHANGED <<booking, messages, call, chat, requests, bookings, ratings, tables, hook, wire>>

\* how a call of getUnreadCount ends: with the count of the store, with 0
\* (a read of its own failed), or rejected
RefreshOutcomes == {"count", "zero", "rejected"}

\* the promise of getUnreadCount settles
RefreshSettles(i, outcome) ==
    /\ i \in DOMAIN badge.refreshes
    /\ badge.refreshes[i].pc = "await"
    /\ badge' = [badge EXCEPT !.refreshes[i] =
                    [@ EXCEPT !.pc = "settled",
                              !.rejected = (outcome = "rejected"),
                              !.total = IF outcome = "count"
                                        THEN unreadTotal(badge.refreshes[i].userId)
                                        ELSE 0]]
    /\ UNCHANGED <<booking, messages, call, chat, requests, bookings, ratings, tables, hook, wire>>

\* a variant whose catch block resets the count
RefreshResumes_ResetsOnError(i) ==
    /\ i \in DOMAIN badge.refreshes
    /\ badge.refreshes[i].pc = "settled"
    /\ badge' = [badge EXCEPT
                    !.count = IF badge.refreshes[i].rejected
                              THEN 0 ELSE badge.refreshes[i].total,
                    !.refreshes = RemoveAt(@, i)]
    /\ UNCHANGED <<booking, messages, call, chat, requests, bookings, ratings, tables, hook, wire>>

\* the await of refresh resumes: setCount(total), or the empty catch block
RefreshResumes(i) ==
    /\ i \in DOMAIN badge.refreshes
    /\ badge.refreshes[i].pc = "settled"
    /\ badge' = [badge EXCEPT
                    !.count = IF badge.refreshes[i].rejected
                              THEN @ ELSE badge.refreshes[i].total,
                    !.refreshes = RemoveAt(@, i)]
    /\ UNCHANGED <<booking, messages, call, chat, requests, bookings, ratings, tables, hook, wire>>

(* --------------------------------------------------------- specifications *)
\* the users of the devices: the first is the sender's, the second is used
\* by either party
SessionUsers(c) == IF c = "c1" THEN {Sender} ELSE Users

\* the steps of the library calls under way; each store access succeeds or fails
LibStep(p) ==
    \E ok \in BOOLEAN :
        \/ CfUpdate(p, ok)
        \/ CfInsert(p, ok)
        \/ VdRead(p, ok)
        \/ VdUpdate(p, ok)
        \/ VdInsert(p, ok)
        \/ SmInsert(p, ok)

ChatStep(c) ==
    \/ \E u \in SessionUsers(c) : OpenChat(c, u)
    \/ CloseChat(c)
    \/ LoadBooking(c)
    \/ LoadStep(c)
    \/ HandleHandoffAction(c)
    \/ HandoffActionReturn(c)
    \/ HandleSend(c)
    \/ ValidateReturn(c)
    \/ SendReturn(c)

\* the chat sessions of the sender and the traveler on an approved booking
Next ==
    \/ \E c \in Sessions : ChatStep(c)
    \/ \E p \in Sessions : LibStep(p)

Spec == Init /\ [][Next]_vars

\* a booking as BookingDetail inserts it (the column defaults), which both
\* list screens show as pending
InitBooking ==
    /\ booking = [status |-> "pending", handoff_step |-> "none", delivery_code |-> NoCode]
    /\ messages = << >>
    /\ call = [c \in Sessions |-> NoCall]
    /\ chat = [c \in Sessions |-> ChatInit(FALSE, Sender)]
    /\ requests = "pending"
    /\ bookings = "pending"
    /\ ratings = << >>
    /\ tables = << >>
    /\ hook = UseChatInit
    /\ wire = NoWire
    /\ badge = BadgeInit

\* the sender's device and the traveler's device
DeviceOf(u) == IF u = Sender THEN "c1" ELSE "c2"

\* the booking screens together with one chat session per party, in which
\* the only texts typed are attempts at the delivery code; the sender leaves
\* the chat and comes back to it, the traveler keeps it open
NextBooking ==
    \/ \E u \in Users : OpenChat(DeviceOf(u), u)
    \/ CloseChat(DeviceOf(Sender))
    \/ \E c \in Sessions :
          \/ LoadBooking(c)
          \/ LoadStep(c)
          \/ HandleHandoffAction(c)
          \/ HandoffActionReturn(c)
          \/ HandleSend(c) /\ call'[c].fn = "validateDeliveryCode"
          \/ ValidateReturn(c)
          \/ SendReturn(c)
          \/ LibStep(c)
    \/ FetchRequests
    \/ \E newStatus \in {"approved", "rejected"} : HandleUpdateStatus(newStatus)
    \/ FetchBookings
    \/ HandleCancel

SpecBooking == InitBooking /\ [][NextBooking]_vars

(* ------------------------------------- the library called by a test client *)
Client == "c1"
Bystander == "c2"

\* the booking_requests rows the sessions and screens can leave the booking
\* in: no code before the first handed_over write, a code ever after
BookingRows ==
    {r \in [status : Statuses, handoff_step : HandoffSteps,
            delivery_code : generateDeliveryCode \cup {NoCode}] :
        IF r.delivery_code = NoCode
        THEN \/ /\ r.handoff_step = "none"
                /\ r.status \in {"pending", "approved", "rejected", "cancelled"}
             \/ /\ r.handoff_step = "sender_confirmed"
                /\ r.status \in {"approved", "cancelled"}
        ELSE \/ /\ r.handoff_step = "sender_confirmed"
                /\ r.status \in {"handed_over", "delivered", "cancelled"}
             \/ /\ r.handoff_step = "handed_over"
                /\ r.status \in {"handed_over", "cancelled"}
             \/ /\ r.handoff_step = "delivered"
                /\ r.status \in {"delivered", "cancelled"}}

\* the codes a client submits: as issued, as typed, and other texts
SubmittedCodes == generateDeliveryCode \cup Inputs

InitValidate ==
    /\ booking \in BookingRows
    /\ messages = << >>
    /\ call = [c \in Sessions |-> NoCall]
    /\ chat = [c \in Sessions |-> ChatInit(FALSE, Sender)]
    /\ requests = "approved"
    /\ bookings = "approved"
    /\ ratings = << >>
    /\ tables = << >>
    /\ hook = UseChatInit
    /\ wire = NoWire
    /\ badge = BadgeInit

\* validateDeliveryCode(bookingRequestId, code, senderId) is called
CallValidateDeliveryCode(p, code, senderId) ==
    /\ call[p].pc \in {"idle", "returned"}
    /\ SetCall(p, ValidateDeliveryCodeFrame(code, senderId))
    /\ UNCHANGED <<booking, messages, chat, requests, bookings, ratings, tables, hook, wire, badge>>

\* one client calling validateDeliveryCode, call after call, on any row
NextValidate ==
    \/ \E code \in SubmittedCodes, senderId \in Users :
          CallValidateDeliveryCode(Client, code, senderId)
    \/ \E ok \in BOOLEAN :
          \/ VdRead(Client, ok)
          \/ VdUpdate(Client, ok)
          \/ VdInsert(Client, ok)

SpecValidate == InitValidate /\ [][NextValidate]_vars

\* confirmHandoff(bookingRequestId, senderId, step) is called
CallConfirmHandoff(p, senderId, step) ==
    /\ call[p].pc \in {"idle", "returned"}
    /\ Len(messages) < MaxMsgs
    /\ \E code \in (IF step = "handed_over" THEN generateDeliveryCode ELSE {NoCode}) :
          SetCall(p, ConfirmHandoffFrame(senderId, step, code))
    /\ UNCHANGED <<booking, messages, chat, requests, bookings, ratings, tables, hook, wire, badge>>

\* one client calling confirmHandoff and validateDeliveryCode, call after
\* call, on any row, every store access of theirs succeeding or failing
NextTransitions ==
    \/ \E senderId \in Users, step \in HandoffSteps \ {"none"} :
          CallConfirmHandoff(Client, senderId, step)
    \/ \E code \in SubmittedCodes, senderId \in Users :
          /\ Len(messages) < MaxMsgs
          /\ CallValidateDeliveryCode(Client, code, senderId)
    \/ \E ok \in BOOLEAN :
          \/ CfUpdate(Client, ok)
          \/ CfInsert(Client, ok)
          \/ VdRead(Client, ok)
          \/ VdUpdate(Client, ok)
          \/ VdInsert(Client, ok)

SpecTransitions == InitValidate /\ [][NextTransitions]_vars

(* ------------------------------------- the message store and its callers *)
\* the party that performs the k-th handoff transition
ScenarioActor == <<Sender, Traveler, Sender>>

\* the log the first k transitions of the handoff leave
RECURSIVE ScenarioLog(_)
ScenarioLog(k) ==
    IF k = 0 THEN << >>
    ELSE LET log == ScenarioLog(k - 1)
         IN  Append(log, NewRow(log, ScenarioActor[k],
                                systemMessages[HandoffOrder[k + 1]], TRUE))

\* and the booking they leave
ScenarioBooking(k, code) ==
    [status |-> IF k >= 2 THEN HandoffOrder[k + 1] ELSE "approved",
     handoff_step |-> HandoffOrder[k + 1],
     delivery_code |-> IF k >= 2 THEN code ELSE NoCode]

\* a text of n characters
Long(n) == [i \in 1..n |-> "x"]

\* the contents passed to sendMessage: what the chat input gives and texts
\* of the longest length allowed, one more, and the longest between blanks
SendContents ==
    Inputs \cup {Long(MaxMessageLen), Long(MaxMessageLen + 1),
                 <<" ">> \o Long(MaxMessageLen) \o <<" ">>}

\* a conversation in which the handoff has made its first k transitions
InitMessages ==
    /\ \E k \in 0..(MaxMsgs - 1) :
          /\ messages = ScenarioLog(k)
          /\ \E code \in generateDeliveryCode :
                booking = ScenarioBooking(k, code)
    /\ call = [c \in Sessions |-> NoCall]
    /\ chat = [c \in Sessions |-> ChatInit(FALSE, Sender)]
    /\ requests = booking.status
    /\ bookings = booking.status
    /\ ratings = << >>
    /\ tables = << >>
    /\ hook = UseChatInit
    /\ wire = NoWire
    /\ badge = BadgeInit

CallSendMessage(p, senderId, content) ==
    /\ call[p].pc \in {"idle", "returned"}
    /\ SetCall(p, SendMessageFrame(senderId, content))
    /\ UNCHANGED <<booking, messages, chat, requests, bookings, ratings, tables, hook, wire, badge>>

CallMarkAsRead(p, userId) ==
    /\ call[p].pc \in {"idle", "returned"}
    /\ SetCall(p, MarkAsReadFrame(userId))
    /\ UNCHANGED <<booking, messages, chat, requests, bookings, ratings, tables, hook, wire, badge>>

CallFetchMessages(p) ==
    /\ call[p].pc \in {"idle", "returned"}
    /\ SetCall(p, FetchMessagesFrame)
    /\ UNCHANGED <<booking, messages, chat, requests, bookings, ratings, tables, hook, wire, badge>>

\* the texts sent while messages are read: an ordinary one and a blank one
MessageTexts == {<<"h", "i">>, <<" ">>}

\* one client marking as read and fetching for either party while another
\* sends for either party, their calls interleaved
NextMessages ==
    \/ \E senderId \in Users, content \in MessageTexts :
          CallSendMessage(Bystander, senderId, content)
    \/ \E userId \in Users : CallMarkAsRead(Client, userId)
    \/ CallFetchMessages(Client)
    \/ \E ok \in BOOLEAN :
          \/ SmInsert(Bystander, ok)
          \/ MrUpdate(Client, ok)
          \/ FmSelect(Client, ok)

SpecMessages == InitMessages /\ [][NextMessages]_vars

\* one client calling sendMessage, call after call, with contents of every
\* length class
NextSend ==
    \/ \E senderId \in Users, content \in SendContents :
          CallSendMessage(Client, senderId, content)
    \/ \E ok \in BOOLEAN : SmInsert(Client, ok)

SpecSend == InitMessages /\ [][NextSend]_vars

(* ------------------------------------------------- the ratings and the chat *)
\* the scores a caller may pass to submitRating
SubmittedScores == Stars \cup {0, 6}

\* submitRating(bookingRequestId, raterId, ratedId, score) is called
CallSubmitRating(p, raterId, score) ==
    /\ call[p].pc \in {"idle", "returned"}
    /\ SetCall(p, SubmitRatingFrame(raterId, CHOOSE u \in Users : u # raterId, score))
    /\ UNCHANGED <<booking, messages, chat, requests, bookings, ratings, tables, hook, wire, badge>>

\* a delivered booking nobody has rated
InitRatings ==
    /\ \E code \in generateDeliveryCode : booking = ScenarioBooking(3, code)
    /\ messages = ScenarioLog(3)
    /\ call = [c \in Sessions |-> NoCall]
    /\ chat = [c \in Sessions |-> ChatInit(FALSE, Sender)]
    /\ requests = booking.status
    /\ bookings = booking.status
    /\ ratings = << >>
    /\ tables = << >>
    /\ hook = UseChatInit
    /\ wire = NoWire
    /\ badge = BadgeInit

\* two clients calling submitRating, call after call
NextRatings ==
    \/ \E p \in Sessions, raterId \in Users, score \in SubmittedScores :
          CallSubmitRating(p, raterId, score)
    \/ \E p \in Sessions, ok \in BOOLEAN : SrInsert(p, ok)

SpecRatings == InitRatings /\ [][NextRatings]_vars

\* a booking the traveler is about to hand over
InitRating ==
    /\ booking = ScenarioBooking(1, NoCode)
    /\ messages = ScenarioLog(1)
    /\ call = [c \in Sessions |-> NoCall]
    /\ chat = [c \in Sessions |-> ChatInit(FALSE, Sender)]
    /\ requests = booking.status
    /\ bookings = booking.status
    /\ ratings = << >>
    /\ tables = << >>
    /\ hook = UseChatInit
    /\ wire = NoWire
    /\ badge = BadgeInit

\* the star the parties press
PressedStars == {5}

\* one chat session per party, rating widget included, in which the only
\* texts typed are attempts at the delivery code
NextRating ==
    \/ \E u \in Users : OpenChat(DeviceOf(u), u)
    \/ \E c \in Sessions :
          \/ CloseChat(c)
          \/ LoadBooking(c)
          \/ LoadStep(c)
          \/ HandleHandoffAction(c)
          \/ HandoffActionReturn(c)
          \/ HandleSend(c) /\ call'[c].fn = "validateDeliveryCode"
          \/ ValidateReturn(c)
          \/ SendReturn(c)
          \/ LibStep(c)
          \/ \E star \in PressedStars : SetRatingScore(c, star)
          \/ HandleSubmitRating(c)
          \/ SubmitRatingReturn(c)
          \/ \E ok \in BOOLEAN : SrInsert(c, ok)

SpecRating == InitRating /\ [][NextRating]_vars

(* ------------------------------------------------------------- the inbox *)
\* a user who is no party to the booking of the chat
Other == "X"
AllUsers == Users \cup {Other}

\* the first k messages the two parties of a booking write in turn, unread
RECURSIVE ConversationLog(_, _, _)
ConversationLog(userId, owner, k) ==
    IF k = 0 THEN << >>
    ELSE LET log == ConversationLog(userId, owner, k - 1)
         IN  Append(log, NewRow(log, IF k % 2 = 1 THEN userId ELSE owner,
                                <<"h", "i">>, FALSE))

\* a booking of any status between two users, with its conversation
TableRows ==
    {[user_id |-> u, owner |-> o, status |-> st, msgs |-> ConversationLog(u, o, k)] :
        u \in AllUsers, o \in AllUsers, st \in Statuses, k \in 0..(MaxMsgs - 1)}

InitConversations ==
    /\ booking = ApprovedBooking
    /\ messages = << >>
    /\ call = [c \in Sessions |-> NoCall]
    /\ chat = [c \in Sessions |-> ChatInit(FALSE, Sender)]
    /\ requests = "approved"
    /\ bookings = "approved"
    /\ ratings = << >>
    /\ tables \in [1..MaxBookings -> {row \in TableRows : row.user_id # row.owner}]
    /\ hook = UseChatInit
    /\ wire = NoWire
    /\ badge = BadgeInit

\* fetchConversations(userId) is called
CallFetchConversations(p, userId) ==
    /\ call[p].pc \in {"idle", "returned"}
    /\ SetCall(p, FetchConversationsFrame(userId))
    /\ UNCHANGED <<booking, messages, chat, requests, bookings, ratings, tables, hook, wire, badge>>

\* one client calling fetchConversations, each read succeeding or failing
NextConversations ==
    \/ \E userId \in Users : CallFetchConversations(Client, userId)
    \/ \E ok \in BOOLEAN :
          \/ FcBookings(Client, ok)
          \/ FcAnn(Client, ok)
          \/ FcLast(Client, ok)
          \/ FcCount(Client, ok)

SpecConversations == InitConversations /\ [][NextConversations]_vars

(* ------------------------------------------------------ the unread badge *)
\* n messages of one party, the first nRead of them read by the other party
RECURSIVE UnreadLog(_, _, _)
UnreadLog(from, n, nRead) ==
    IF n = 0 THEN << >>
    ELSE LET log == UnreadLog(from, n - 1, nRead)
         IN  Append(log, [NewRow(log, from, <<"h", "i">>, FALSE)
                             EXCEPT !.read_at = IF n <= nRead THEN 1 ELSE NoRead])

\* the statuses of the bookings behind the badge: one that opens no
\* conversation and two that open one
BadgeStatuses == {"pending", "approved", "delivered"}

\* a booking a party of the chat has sent to another user; its log is empty,
\* or one of the two has written MaxMsgs messages of which the other has
\* read none or one
UnreadRows ==
    {[user_id |-> u, owner |-> o, status |-> st, msgs |-> UnreadLog(from, n, r)] :
        u \in Users, o \in AllUsers, st \in BadgeStatuses, from \in AllUsers,
        n \in {0, MaxMsgs}, r \in 0..1}

InitUnread ==
    /\ booking = ApprovedBooking
    /\ messages = << >>
    /\ call = [c \in Sessions |-> NoCall]
    /\ chat = [c \in Sessions |-> ChatInit(FALSE, Sender)]
    /\ requests = "approved"
    /\ bookings = "approved"
    /\ ratings = << >>
    /\ tables \in [1..MaxBookings ->
                     {row \in UnreadRows :
                         /\ row.user_id # row.owner
                         /\ \A i \in DOMAIN row.msgs :
                               row.msgs[i].sender_id \in {row.user_id, row.owner}}]
    /\ hook = UseChatInit
    /\ wire = NoWire
    /\ badge = BadgeInit

\* getUnreadCount(userId) is called
CallGetUnreadCount(p, userId) ==
    /\ call[p].pc \in {"idle", "returned"}
    /\ SetCall(p, GetUnreadCountFrame(userId))
    /\ UNCHANGED <<booking, messages, chat, requests, bookings, ratings, tables, hook, wire, badge>>

\* the inbox of a user is fetched, its reads succeeding, and then the badge
\* of the same user is counted, each read succeeding or failing
NextUnread ==
    \/ \E userId \in Users :
          call[Client].pc = "idle" /\ CallFetchConversations(Client, userId)
    \/ FcBookings(Client, TRUE)
    \/ FcAnn(Client, TRUE)
    \/ FcLast(Client, TRUE)
    \/ FcCount(Client, TRUE)
    \/ /\ call[Client].pc = "returned"
       /\ call[Bystander].pc = "idle"
       /\ CallGetUnreadCount(Bystander, call[Client].senderId)
    \/ \E ok \in BOOLEAN :
          \/ GuBookings(Bystander, ok)
          \/ GuAnns(Bystander, ok)
          \/ GuCount(Bystander, ok)

SpecUnread == InitUnread /\ [][NextUnread]_vars

(* ------------------------------------------ the handoff step on the screen *)
\* what a chat screen does by itself once it is open: its load goes on and
\* the call it has made goes on and returns, every store access succeeding
ScreenStep(c) ==
    \/ LoadBooking(c) /\ chat'[c].loadPc = "ld_step"
    \/ LoadStep(c) /\ chat'[c].handoffStep = booking.handoff_step
    \/ CfUpdate(c, TRUE)
    \/ CfInsert(c, TRUE)
    \/ HandoffActionReturn(c)

\* each party opens the chat of the approved booking on its device, keeps it
\* open and presses the handoff button when the screen shows one
NextHandoffView ==
    \/ \E u \in Users : OpenChat(DeviceOf(u), u)
    \/ \E c \in Sessions : HandleHandoffAction(c)
    \/ \E c \in Sessions : ScreenStep(c)

\* what a screen does by itself is done in the end; when a user opens the
\* chat or presses a button is up to the user
SpecHandoffView ==
    /\ Init
    /\ [][NextHandoffView]_vars
    /\ \A c \in Sessions : WF_vars(ScreenStep(c))

(* ------------------------------------------------- the messages rendered *)
\* what a user may send: an ordinary text and the text of each system message
RenderTexts == {<<"h", "i">>} \cup {systemMessages[step] : step \in DOMAIN systemMessages}

\* a session open on the booking, whose list is rendered, while a party
\* sends a text
NextRender ==
    \/ \E senderId \in Users, content \in RenderTexts :
          CallSendMessage(Bystander, senderId, content)
    \/ \E ok \in BOOLEAN : SmInsert(Bystander, ok)
    \/ MountChat(BookingId, Sender)
    \/ UnmountChat
    \/ ReloadChat
    \/ \E i \in 1..MaxLoads :
          \/ \E ok \in BOOLEAN : LoadSelect(i, ok)
          \/ LoadDone(i)

SpecRender == InitMessages /\ [][NextRender]_vars

(* ------------------------------------------------------ the chat session *)
\* the conversation holds k messages of the counterpart when the run begins
InitSubscription ==
    /\ booking = ApprovedBooking
    /\ \E k \in 0..(MaxMsgs - 1) : messages = UnreadLog(Traveler, k, 0)
    /\ call = [c \in Sessions |-> NoCall]
    /\ chat = [c \in Sessions |-> ChatInit(FALSE, Sender)]
    /\ requests = "approved"
    /\ bookings = "approved"
    /\ ratings = << >>
    /\ tables = << >>
    /\ hook = UseChatInit
    /\ wire = NoWire
    /\ badge = BadgeInit

\* the userId the auth context gives the screen
SessionUserIds == {NoUser, Sender}

\* a screen mounting, re-rendering and unmounting useChat with and without
\* a booking and a user, its loads succeeding or failing
NextSubscription ==
    \/ \E bookingRequestId \in BookingIds, userId \in SessionUserIds :
          \/ MountChat(bookingRequestId, userId)
          \/ RerenderChat(bookingRequestId, userId)
    \/ UnmountChat
    \/ ReloadChat
    \/ \E i \in 1..MaxLoads :
          \/ \E ok \in BOOLEAN : LoadSelect(i, ok)
          \/ LoadDone(i)

SpecSubscription == InitSubscription /\ [][NextSubscription]_vars

\* every request of a load is answered: the select runs, or fails, and the
\* await resumes
SpecLoading ==
    /\ InitSubscription
    /\ [][NextSubscription]_vars
    /\ WF_vars(\E i \in 1..MaxLoads, ok \in BOOLEAN : LoadSelect(i, ok))
    /\ WF_vars(\E i \in 1..MaxLoads : LoadDone(i))

\* a session open on the booking while both parties send: loads, reloads
\* and INSERT events interleave, and every read succeeds
NextSession ==
    \/ MountChat(BookingId, Sender)
    \/ UnmountChat
    \/ ReloadChat
    \/ \E i \in 1..MaxLoads :
          \/ LoadSelect(i, TRUE)
          \/ LoadDone(i)
    \/ \E senderId \in Users : PostMessage(senderId)
    \/ \E id \in 1..MaxChannels : DeliverInsert(id)
    \/ \E id \in 1..MaxMsgs : InsertHandled(id, TRUE)

SpecSession == InitSubscription /\ [][NextSession]_vars

(* -------------------------------------------------- the badge's polling *)
\* the store of the spec's example: the sender has a booking with MaxMsgs
\* unread messages of the traveler and a booking without messages
BadgeTable ==
    <<[user_id |-> Sender, owner |-> Traveler, status |-> "approved",
       msgs |-> UnreadLog(Traveler, MaxMsgs, 0)],
      [user_id |-> Sender, owner |-> Other, status |-> "delivered", msgs |-> << >>]>>

InitBadge ==
    /\ booking = ApprovedBooking
    /\ messages = << >>
    /\ call = [c \in Sessions |-> NoCall]
    /\ chat = [c \in Sessions |-> ChatInit(FALSE, Sender)]
    /\ requests = "approved"
    /\ bookings = "approved"
    /\ ratings = << >>
    /\ tables = BadgeTable
    /\ hook = UseChatInit
    /\ wire = NoWire
    /\ badge = BadgeInit

\* the userId the auth context gives the tab bar
BadgeUserIds == {NoUser, Sender, Traveler}

\* the steps in which time passes: a third of the interval, or all of it
Delays == {PollInterval \div 3, PollInterval}

\* the tab bar mounting and unmounting the hook while time passes, screens
\* calling refresh, each call of getUnreadCount ending in any way
NextBadge ==
    \/ \E userId \in BadgeUserIds : MountBadge(userId)
    \/ \E userId \in BadgeUserIds : RerenderBadge(userId)
    \/ UnmountBadge
    \/ IntervalFires
    \/ ManualRefresh
    \/ \E d \in Delays : Tick(d)
    \/ \E i \in 1..MaxRefreshes :
          \/ \E outcome \in RefreshOutcomes : RefreshSettles(i, outcome)
          \/ RefreshResumes(i)

SpecBadge == InitBadge /\ [][NextBadge]_vars

\* the user of the tab bar changing while the store stays as it is and every
\* call of getUnreadCount returns the count of the store
NextBadgeUsers ==
    \/ \E userId \in BadgeUserIds : MountBadge(userId)
    \/ \E userId \in BadgeUserIds : RerenderBadge(userId)
    \/ IntervalFires
    \/ \E d \in Delays : Tick(d)
    \/ \E i \in 1..MaxRefreshes :
          \/ RefreshSettles(i, "count")
          \/ RefreshResumes(i)

SpecBadgeUsers == InitBadge /\ [][NextBadgeUsers]_vars

(* ------------------------------------------ the run of the spec's scenario *)
\* confirmHandoff(B, sender, 'sender_confirmed')
RunSenderConfirms ==
    /\ call[Client].pc = "idle"
    /\ SetCall(Client, ConfirmHandoffFrame(Sender, "sender_confirmed", NoCode))
    /\ UNCHANGED <<booking, messages, chat, requests, bookings, ratings, tables, hook, wire, badge>>

\* then confirmHandoff(B, traveler, 'handed_over'), which draws a code
RunTravelerHandsOver ==
    /\ call[Client].pc = "returned"
    /\ call[Client].fn = "confirmHandoff"
    /\ call[Client].step = "sender_confirmed"
    /\ \E code \in generateDeliveryCode :
          SetCall(Client, ConfirmHandoffFrame(Traveler, "handed_over", code))
    /\ UNCHANGED <<booking, messages, chat, requests, bookings, ratings, tables, hook, wire, badge>>

\* then validateDeliveryCode(B, lowercase(C) + " ", sender) with the code C
\* the second call returned
RunSenderSubmitsCode ==
    /\ call[Client].pc = "returned"
    /\ call[Client].fn = "confirmHandoff"
    /\ call[Client].step = "handed_over"
    /\ call[Client].ret = "code"
    /\ SetCall(Client, ValidateDeliveryCodeFrame(
                          toLowerCase(call[Client].code) \o <<" ">>, Sender))
    /\ UNCHANGED <<booking, messages, chat, requests, bookings, ratings, tables, hook, wire, badge>>

\* meanwhile either party may send ordinary messages
RunSendMessage ==
    /\ call[Bystander].pc \in {"idle", "returned"}
    /\ RoomForUserMsg
    /\ \E senderId \in Users, content \in Inputs :
          SetCall(Bystander, SendMessageFrame(senderId, content))
    /\ UNCHANGED <<booking, messages, chat, requests, bookings, ratings, tables, hook, wire, badge>>

\* the three calls one after the other, every store access of theirs
\* succeeding
NextScenario ==
    \/ RunSenderConfirms
    \/ RunTravelerHandsOver
    \/ RunSenderSubmitsCode
    \/ CfUpdate(Client, TRUE)
    \/ CfInsert(Client, TRUE)
    \/ VdRead(Client, TRUE)
    \/ VdUpdate(Client, TRUE)
    \/ VdInsert(Client, TRUE)
    \/ RunSendMessage
    \/ \E ok \in BOOLEAN : SmInsert(Bystander, ok)

SpecScenario == Init /\ [][NextScenario]_vars

(* ----------------------------------------------------------------- claims *)
StepIndex(step) == CHOOSE i \in DOMAIN HandoffOrder : HandoffOrder[i] = step

SystemContents ==
    LET sys == SelectSeq(messages, LAMBDA m : m.is_system)
    IN  [i \in DOMAIN sys |-> sys[i].content]

\* the call of client c has returned ret from function fn
HasReturned(c, fn, ret) ==
    call[c].pc = "returned" /\ call[c].fn = fn /\ call[c].ret = ret

\* client c's confirmHandoff(step) has returned without throwing
ConfirmSucceeded(c, step) ==
    /\ call[c].pc = "returned"
    /\ call[c].fn = "confirmHandoff"
    /\ call[c].step = step
    /\ call[c].ret # "threw"

\* C1: every change of the stored handoff_step moves it exactly one step
\* forward along none, sender_confirmed, handed_over, delivered: it never
\* moves backward, never skips a step and never leaves delivered.
C1_HandoffForwardOnly ==
    [][booking'.handoff_step # booking.handoff_step
          => StepIndex(booking'.handoff_step) = StepIndex(booking.handoff_step) + 1]_vars

\* C2: of two sessions that attempt the same handoff transition from the same
\* displayed step, with their attempts under way together, at most one
\* succeeds (has its booking write applied and its system message appended).
C2_OneAttemptSucceeds ==
    \A c \in Sessions, d \in Sessions, step \in HandoffSteps :
        (c # d /\ chat[c].handoffStep = chat[d].handoffStep)
        => ~(ConfirmSucceeded(c, step) /\ ConfirmSucceeded(d, step))

\* C3: of two submissions of the delivery code under way together, at most
\* one returns true (and so at most one '[HANDOFF] delivered' is appended).
C3_OneSubmissionSucceeds ==
    \A c \in Sessions, d \in Sessions :
        c # d => ~(HasReturned(c, "validateDeliveryCode", "true")
                   /\ HasReturned(d, "validateDeliveryCode", "true"))

\* C4: handoff_step = handed_over implies status = handed_over, and
\* handoff_step = delivered implies status = delivered, in every state.
C4_StatusInLockstep ==
    /\ booking.handoff_step = "handed_over" => booking.status = "handed_over"
    /\ booking.handoff_step = "delivered" => booking.status = "delivered"

\* the step in which validateDeliveryCode of client c reads the booking
IsValidateRead(c) == call[c].pc = "vd_read" /\ call'[c].pc # "vd_read"

\* C5: validateDeliveryCode returns false, without throwing, and leaves the
\* booking row and the message log unchanged when the row it reads is not at
\* handed_over (whatever the code), when the code does not match the stored
\* one, and when the lookup fails.
C5_ValidateFailsClosed ==
    [][\A c \in Sessions :
          (/\ IsValidateRead(c)
           /\ \/ booking.handoff_step # "handed_over"
              \/ ~codeMatches(call[c].text, booking.delivery_code)
              \/ call'[c].error)
          => /\ HasReturned(c, "validateDeliveryCode", "false")'
             /\ booking' = booking
             /\ messages' = messages]_vars

\* C5 witness: a correct code was submitted for a booking that is not at
\* handed_over, and the call returned false
C5_Witness ==
    /\ HasReturned(Client, "validateDeliveryCode", "false")
    /\ ~call[Client].error
    /\ booking.handoff_step # "handed_over"
    /\ codeMatches(call[Client].text, booking.delivery_code)

\* C6: validateDeliveryCode returns false exactly when the row it reads is
\* not at handed_over, holds no code, or holds a code other than the
\* submitted one (both upper-cased and trimmed); and at the moment it returns
\* true the booking has handoff_step = delivered and status = delivered.
C6_ValidateTrueIffDelivered ==
    [][\A c \in Sessions :
          /\ IsValidateRead(c)
             => (HasReturned(c, "validateDeliveryCode", "false")'
                   <=> ~(/\ booking.handoff_step = "handed_over"
                         /\ booking.delivery_code # NoCode
                         /\ trim(toUpperCase(call[c].text))
                               = trim(toUpperCase(booking.delivery_code))
                         /\ ~call'[c].error))
          /\ (call[c].pc = "vd_insert" /\ HasReturned(c, "validateDeliveryCode", "true")')
             => /\ booking'.handoff_step = "delivered"
                /\ booking'.status = "delivered"]_vars

\* C7: when the third call of the run (sender_confirmed by the sender,
\* handed_over by the traveler returning code C, then the sender submitting
\* lowercase(C) followed by a space) has returned, it has returned true,
\* handoff_step is delivered, and the log holds exactly the three system
\* messages, one per step, in order.
C7_ScenarioRun ==
    (call[Client].pc = "returned" /\ call[Client].fn = "validateDeliveryCode")
    => /\ call[Client].ret = "true"
       /\ booking.handoff_step = "delivered"
       /\ booking.status = "delivered"
       /\ SystemContents = <<systemMessages["sender_confirmed"],
                             systemMessages["handed_over"],
                             systemMessages["delivered"]>>

\* C7 witness: the run has reached the return of its third call
C7_Witness ==
    /\ HasReturned(Client, "validateDeliveryCode", "true")
    /\ call[Client].text = toLowerCase(booking.delivery_code) \o <<" ">>
    /\ NumSysMsgs("delivered") = 1

\* C8: confirmHandoff writes sender_confirmed only for the sender and only
\* over a stored step of none, and handed_over only for the traveler and only
\* over a stored step of sender_confirmed; any other call writes nothing.
C8_ActorAndPrecondition ==
    [][\A c \in Sessions :
          (call[c].pc = "cf_update" /\ call'[c].pc = "cf_insert")
          => \/ /\ call[c].step = "sender_confirmed"
                /\ call[c].senderId = Sender
                /\ booking.handoff_step = "none"
             \/ /\ call[c].step = "handed_over"
                /\ call[c].senderId = Traveler
                /\ booking.handoff_step = "sender_confirmed"]_vars

\* C9: no step changes the stored delivery_code without changing
\* handoff_step, and a code once issued is the stored code ever after.
C9_CodeNeverRegenerated ==
    [][/\ booking'.delivery_code # booking.delivery_code
          => booking'.handoff_step # booking.handoff_step
       /\ booking.delivery_code # NoCode
          => booking'.delivery_code = booking.delivery_code]_vars

\* C10: delivery_code is set only while handoff_step is handed_over or
\* delivered.
C10_CodeOnlyFromHandedOver ==
    booking.delivery_code # NoCode
    => booking.handoff_step \in {"handed_over", "delivered"}

\* the step is a storage write of a handoff transition by client c
IsTransitionWrite(c) ==
    /\ call[c].pc \in {"cf_update", "cf_insert", "vd_update", "vd_insert"}
    /\ call'[c] # call[c]

\* C11: a storage write that fails during confirmHandoff or
\* validateDeliveryCode makes the call throw, never return a result; when it
\* is the booking update that fails, the booking is unchanged and no system
\* message is appended, in that step or in the rest of the call.
C11_WriteFailureSurfaces ==
    [][\A c \in Sessions :
          /\ (IsTransitionWrite(c) /\ call'[c].error)
             => /\ call'[c].pc = "returned"
                /\ call'[c].ret = "threw"
                /\ booking' = booking
                /\ messages' = messages
          /\ (IsTransitionWrite(c) /\ call'[c].pc = "returned" /\ call'[c].ret # "threw")
             => /\ ~call'[c].error
                /\ messages' = Append(messages,
                                      SysMsg(call[c].senderId,
                                             IF call[c].fn = "confirmHandoff"
                                             THEN call[c].step ELSE "delivered"))]_vars

\* C11 witness: the booking update of a confirmHandoff that would have moved
\* the booking has failed and the call has thrown
C11_Witness ==
    /\ call[Client].fn = "confirmHandoff"
    /\ call[Client].pc = "returned"
    /\ call[Client].ret = "threw"
    /\ call[Client].error
    /\ call[Client].step = "handed_over"
    /\ booking.handoff_step = "sender_confirmed"
    /\ messages = << >>

\* C12: while a sender's session shows handed_over, a text submitted in it is
\* first given to validateDeliveryCode; when that call has returned false or
\* has failed the text is then sent as an ordinary message, and when it has
\* returned true nothing is sent.
C12_CodeCheckFallsThrough ==
    [][\A c \in Sessions :
          /\ (/\ call[c].pc = "idle" /\ call'[c].pc # "idle"
              /\ call'[c].fn \in {"validateDeliveryCode", "sendMessage"}
              /\ chat[c].handoffStep = "handed_over" /\ chat[c].isSender)
             => call'[c].fn = "validateDeliveryCode"
          /\ (/\ call[c].fn = "validateDeliveryCode"
              /\ call[c].pc = "returned"
              /\ call'[c] # call[c])
             => IF call[c].ret = "true"
                THEN call'[c] = NoCall
                ELSE call'[c] = SendMessageFrame(chat[c].user, call[c].text)]_vars

\* C13: sendMessage trims its content; when the trimmed length is 0 or more
\* than 2000 the call fails and no row is appended; when it is from 1 to
\* 2000 (and the insert itself does not fail) exactly one row is appended,
\* holding the trimmed content.
C13_SendMessageLength ==
    [][\A c \in Sessions :
          (call[c].pc = "sm_insert" /\ call'[c] # call[c])
          => LET trimmed == trim(call[c].text) IN
             IF Len(trimmed) = 0 \/ Len(trimmed) > MaxMessageLen \/ call'[c].error
             THEN /\ call'[c].ret = "threw"
                  /\ messages' = messages
             ELSE /\ call'[c].ret = "void"
                  /\ Len(messages') = Len(messages) + 1
                  /\ SubSeq(messages', 1, Len(messages)) = messages
                  /\ messages'[Len(messages')].content = trimmed
                  /\ messages'[Len(messages')].sender_id = call[c].senderId]_vars

\* C13 witness: a content of 2000 characters between two blanks has been
\* sent and the appended row holds the 2000 characters
C13_Witness ==
    /\ HasReturned(Client, "sendMessage", "void")
    /\ Len(call[Client].text) = MaxMessageLen + 2
    /\ messages # << >>
    /\ messages[Len(messages)].content = Long(MaxMessageLen)

\* the step is the update of markAsRead by client c
IsMarkAsRead(c) == call[c].pc = "mr_update" /\ call'[c].pc = "returned"

\* C14: markAsRead(booking, reader) sets read_at, to one timestamp, on
\* exactly the messages whose sender is not the reader and whose read_at is
\* null, and changes no other message; no such message is left afterwards,
\* so that a second call right after it changes nothing; with nothing to
\* mark it does not fail.
C14_MarkAsReadExactAndIdempotent ==
    [][\A c \in Sessions :
          (IsMarkAsRead(c) /\ ~call'[c].error)
          => LET reader == call[c].senderId IN
             /\ call'[c].ret = "void"
             /\ DOMAIN messages' = DOMAIN messages
             /\ \E now \in Times : \A i \in DOMAIN messages :
                   messages'[i] =
                      IF messages[i].sender_id # reader /\ messages[i].read_at = NoRead
                      THEN [messages[i] EXCEPT !.read_at = now]
                      ELSE messages[i]
             /\ \A i \in DOMAIN messages' :
                   ~(messages'[i].sender_id # reader /\ messages'[i].read_at = NoRead)
             /\ \A now \in Times : markAsRead(messages', reader, now) = messages']_vars

\* C14 witness: a call has marked a message of the other party and left the
\* reader's own unread message unread
C14_Witness ==
    /\ HasReturned(Client, "markAsRead", "void")
    /\ \E i \in DOMAIN messages, j \in DOMAIN messages :
          /\ messages[i].sender_id # call[Client].senderId
          /\ messages[i].read_at # NoRead
          /\ messages[j].sender_id = call[Client].senderId
          /\ messages[j].read_at = NoRead

\* C15: in every step each stored message keeps every field but read_at, and
\* its read_at either stays as it is or goes from null to a timestamp;
\* no message is removed.
C15_ReadAtSetOnce ==
    [][/\ Len(messages') >= Len(messages)
       /\ \A i \in DOMAIN messages :
             /\ messages'[i] = [messages[i] EXCEPT !.read_at = messages'[i].read_at]
             /\ \/ messages'[i].read_at = messages[i].read_at
                \/ messages[i].read_at = NoRead /\ messages'[i].read_at \in Times]_vars

\* C15 witness: a message read earlier has kept its timestamp through a
\* later markAsRead of the same reader at another time, which marked another
\* message
C15_Witness ==
    /\ HasReturned(Client, "markAsRead", "void")
    /\ \E i \in DOMAIN messages, j \in DOMAIN messages :
          /\ messages[i].sender_id # call[Client].senderId
          /\ messages[j].sender_id # call[Client].senderId
          /\ messages[i].read_at \in Times
          /\ messages[j].read_at \in Times
          /\ messages[i].read_at # messages[j].read_at

IsRatingInsert(c) == call[c].pc = "sr_insert" /\ call'[c].pc = "returned"

\* the rater has a rating of the booking
HasRated(raterId) == \E i \in DOMAIN ratings : ratings[i].rater_id = raterId

\* C17: no two ratings of the booking have the same rater; a submitRating
\* whose rater has a rating already throws and stores nothing, whether the
\* earlier call was over or under way when it was made, and one whose rater
\* has none either stores exactly its row and returns or throws and stores
\* nothing.
C17_OneRatingPerRater ==
    [][/\ \A i \in DOMAIN ratings', j \in DOMAIN ratings' :
             ratings'[i].rater_id = ratings'[j].rater_id => i = j
       /\ \A c \in Sessions :
             IsRatingInsert(c)
             => IF HasRated(call[c].senderId)
                THEN /\ call'[c].ret = "threw"
                     /\ ratings' = ratings
                ELSE \/ /\ call'[c].ret = "void"
                        /\ ratings' = Append(ratings,
                                             RatingRow(call[c].senderId, call[c].ratedId,
                                                       call[c].score))
                     \/ /\ call'[c].ret = "threw"
                        /\ ratings' = ratings]_vars

\* C17 witness: of the two clients' calls for the same rater one has
\* returned and the other has thrown, the rater has one rating, and so has
\* the other party
C17_Witness ==
    /\ \E c \in Sessions, d \in Sessions :
          /\ HasReturned(c, "submitRating", "void")
          /\ HasReturned(d, "submitRating", "threw")
          /\ call[c].senderId = call[d].senderId
          /\ Cardinality({i \in DOMAIN ratings : ratings[i].rater_id = call[c].senderId}) = 1
    /\ Len(ratings) = 2

\* C18: a submitRating with a score outside 1..5 throws and stores nothing.
C18_ScoreValidated ==
    [][\A c \in Sessions :
          (IsRatingInsert(c) /\ call[c].score \notin Stars)
          => /\ call'[c].ret = "threw"
             /\ ratings' = ratings]_vars

\* C19: a rating is stored only while the stored handoff_step of the booking
\* is delivered.
C19_RatingOnlyWhenDelivered ==
    [][ratings' # ratings => booking.handoff_step = "delivered"]_vars

\* the bookings of the table in which the user is the sender or the owner of
\* the announcement and whose status opens a conversation
ConversationsOf(userId) ==
    {b \in DOMAIN tables :
        /\ tables[b].status \notin {"pending", "rejected", "cancelled"}
        /\ tables[b].user_id = userId \/ tables[b].owner = userId}

\* C20: the list fetchConversations(user) returns has one conversation for
\* each booking in which the user is the sender or the announcement's owner
\* and whose status is not pending, rejected or cancelled, and for no other;
\* the conversation of a booking without messages has an empty preview and
\* unread count 0.
C20_ConversationsExact ==
    [][\A c \in Sessions :
          (call[c].fn = "fetchConversations" /\ call[c].pc # "returned"
             /\ call'[c].pc = "returned" /\ call'[c].ret = "rows")
          => LET list == call'[c].rows IN
             /\ {list[i].booking_request_id : i \in DOMAIN list}
                   = ConversationsOf(call[c].senderId)
             /\ \A i \in DOMAIN list, j \in DOMAIN list :
                   list[i].booking_request_id = list[j].booking_request_id => i = j
             /\ \A i \in DOMAIN list :
                   tables[list[i].booking_request_id].msgs = << >>
                   => list[i].last_message = NoText /\ list[i].unread_count = 0]_vars

\* the sum of unread_count over a list of conversations
RECURSIVE SumUnread(_)
SumUnread(list) ==
    IF list = << >> THEN 0 ELSE Head(list).unread_count + SumUnread(Tail(list))

\* both calls have returned for the same user, and no read of
\* getUnreadCount has failed
BadgeAndInbox ==
    /\ call[Client].fn = "fetchConversations"
    /\ call[Client].pc = "returned" /\ call[Client].ret = "rows"
    /\ call[Bystander].fn = "getUnreadCount"
    /\ call[Bystander].pc = "returned" /\ ~call[Bystander].error
    /\ call[Bystander].senderId = call[Client].senderId

\* C21: over the same stored state, the number getUnreadCount(user) returns
\* when its reads succeed equals the sum of unread_count over the
\* conversations fetchConversations(user) returns, which is the number of
\* unread messages the counterparts have sent in the user's qualifying
\* bookings.
C21_UnreadCountIsSum ==
    BadgeAndInbox
    => /\ call[Bystander].count = SumUnread(call[Client].rows)
       /\ call[Bystander].count =
             Cardinality({<<b, i>> \in ConversationsOf(call[Client].senderId)
                                          \X (1..MaxMsgs) :
                            /\ i \in DOMAIN tables[b].msgs
                            /\ tables[b].msgs[i].sender_id # call[Client].senderId
                            /\ tables[b].msgs[i].read_at = NoRead})

\* two conversations with MaxMsgs and 0 unread messages, counted as MaxMsgs
C21_Witness ==
    /\ BadgeAndInbox
    /\ Len(call[Client].rows) = 2
    /\ {call[Client].rows[i].unread_count : i \in 1..2} = {0, MaxMsgs}
    /\ call[Bystander].count = MaxMsgs

\* C22: a chat session holds a subscription only while it is open on a
\* conversation: while mounted with a booking and a user it holds exactly one
\* channel, the one on its booking that its cleanup will unsubscribe, and
\* otherwise (no booking, no user, or the session has ended) it holds none.
C22_SubscriptionWhileOpen ==
    IF hook.mounted /\ hasIds(hook.bookingRequestId, hook.userId)
    THEN wire.channels = {[id |-> hook.cleanup, topic |-> hook.bookingRequestId,
                           cursor |-> Len(messages)]}
    ELSE wire.channels = {}

\* a session that has ended after the last of MaxChannels subscriptions
C22_Witness ==
    ~hook.mounted /\ hook.created = MaxChannels /\ wire.channels = {}

\* C27: the loading flag of a mounted useChat becomes false in every case:
\* after a load that succeeded or failed, and also when bookingRequestId is
\* empty or userId is undefined.
C27_LoadingEnds ==
    hook.mounted ~> (~hook.loading \/ ~hook.mounted)

\* the session is open and has nothing under way: no load, no INSERT handler
\* and no INSERT event that its channel has yet to receive
SessionQuiet ==
    /\ hook.mounted
    /\ wire.loads = << >>
    /\ wire.handlers = {}
    /\ \A ch \in wire.channels : ch.cursor = Len(messages)

\* C23: once no load and no event is pending, the local message list of an
\* open chat session holds every stored message of its conversation exactly
\* once.
C23_NoMessageLostOrDuplicated ==
    SessionQuiet
    => \A id \in DOMAIN messages :
          Cardinality({i \in DOMAIN hook.messages :
                          hook.messages[i].created_at = id}) = 1

\* C28: the local message list of a chat session is ordered by created_at
\* ascending at all times, whatever the order in which the row fetches of the
\* INSERT events complete.
C28_LocalListOrdered ==
    \A i \in DOMAIN hook.messages, j \in DOMAIN hook.messages :
       i < j => hook.messages[i].created_at < hook.messages[j].created_at

\* C24: when the stored handoff_step of a booking has been advanced by the
\* counterpart while a chat session on the booking is open (loaded, with no
\* call of its own under way), the step the session displays eventually
\* equals the stored step, the session staying open.
C24_DisplayedStepFollows ==
    \A c \in Sessions :
       (/\ chat[c].mounted
        /\ chat[c].loadPc = "done"
        /\ call[c].pc = "idle"
        /\ chat[c].handoffStep # booking.handoff_step)
       ~> (chat[c].handoffStep = booking.handoff_step)

\* C25: a message sent by a user is never stored or rendered as a protocol
\* message, even when its text is that of a system message: sendMessage
\* stores it with is_system false, and the chat view renders an item of its
\* list as a system message only when the item's is_system flag is true.
C25_UserMessageNeverSystem ==
    /\ [][\A p \in Sessions :
            (call[p].pc = "sm_insert" /\ messages' # messages)
            => ~messages'[Len(messages')].is_system]_vars
    /\ [](\A i \in DOMAIN hook.messages :
            systemText(hook.messages[i]) # "null" => hook.messages[i].is_system)

\* a call of getUnreadCount has been made in the step
RefreshStarted == Len(badge'.refreshes) > Len(badge.refreshes)

\* C26: useUnreadMessages calls getUnreadCount once when it is mounted with a
\* user and sets its interval to fire 30 seconds later; the interval fires
\* exactly when it is due, calls it once more and is due again 30 seconds
\* later; a manual refresh calls it as well; once unmounted no interval is
\* set and no call is made; and a call that is rejected leaves the count as
\* it was.
C26_PollsWhileMounted ==
    /\ [](IF badge.mounted
          THEN badge.now <= badge.interval /\ badge.interval <= badge.now + PollInterval
          ELSE badge.interval = NoInterval)
    /\ [][/\ (~badge.mounted /\ badge'.mounted /\ badge'.userId # NoUser)
             => /\ Len(badge'.refreshes) = Len(badge.refreshes) + 1
                /\ badge'.interval = badge.now + PollInterval
          /\ (badge.mounted /\ badge'.mounted /\ badge'.userId = badge.userId
                /\ badge'.interval # badge.interval)
             => /\ badge.now = badge.interval
                /\ badge'.interval = badge.interval + PollInterval
                /\ badge.userId # NoUser
                   => Len(badge'.refreshes) = Len(badge.refreshes) + 1
          /\ RefreshStarted => badge.mounted \/ badge'.mounted
          /\ \A i \in DOMAIN badge.refreshes :
                (/\ badge.refreshes[i].pc = "settled"
                 /\ badge.refreshes[i].rejected
                 /\ badge'.refreshes = RemoveAt(badge.refreshes, i))
                => badge'.count = badge.count]_vars

\* the interval has fired twice and two refreshes are under way, one of them
\* rejected
C26_Witness ==
    /\ badge.mounted
    /\ badge.interval = (MaxPolls + 1) * PollInterval
    /\ Len(badge.refreshes) = 2
    /\ \E i \in DOMAIN badge.refreshes : badge.refreshes[i].rejected

\* C30: after the userId of useUnreadMessages has changed, once every
\* refresh under way has completed the displayed count is the count of the
\* new user, 0 for undefined.
C30_CountOfCurrentUser ==
    (badge.mounted /\ badge.refreshes = << >>)
    => badge.count = IF badge.userId = NoUser THEN 0 ELSE unreadTotal(badge.userId)

\* C29: the system messages of the booking's log, read in order, are the
\* messages of sender_confirmed, handed_over and delivered in this order, or
\* the first ones of them, none twice, and the message of a step is in the
\* log only when the stored handoff_step has reached that step.
C29_SystemLogIsPrefix ==
    /\ Len(SystemContents) < Len(HandoffOrder)
    /\ \A i \in DOMAIN SystemContents :
          /\ SystemContents[i] = systemMessages[HandoffOrder[i + 1]]
          /\ StepIndex(booking.handoff_step) >= i + 1

====
